---- MODULE Spec2Model ----
(***************************************************************************)
(* A model of github.com/bww/go-apiclient (v1):                            *)
(*   - the request pipeline, Client.RoundTrip (v1/api.go), and             *)
(*   - the request multiplexer, Mux.Do and Collect (v1/multiplex).         *)
(* The merge of the client's default headers into a request is modelled   *)
(* on its own (HeaderSpec).                                                *)
(* Time is counted in units of one minute of the pipeline's clock; every   *)
(* wait of the pipeline is a select between a timer and the context.       *)
(***************************************************************************)
EXTENDS Integers, Sequences, FiniteSets, TLC

\* ------------------------------------------------------------ bounds
MaxReqs == 3           \* most requests a producer holds
MaxConcur == 2         \* largest concurrency a Mux is created with
MaxGateDelay == 2      \* largest delay the limiter's Next asks for
MaxRetryAfter == 2     \* largest distance of a RetrySignal's time from now
MaxCalls == 2          \* most RoundTrip calls running on one Client at a time
MaxBackoff == 2        \* largest configured retry delay

\* --------------------------------------------------- program constants
maxRetries == 3
backoffDefault == 3

None == 0

\* The response statuses the transport answers with.
Statuses == {200, 204, 302, 404, 500, 503}

\* The retryable-status sets a client is configured with: a nil map (a
\* client derived by WithBase), an empty one, RecoverableStatuses, and a
\* set that lists a 2xx status.
RetrySets ==
  {[nil |-> TRUE, set |-> {}], [nil |-> FALSE, set |-> {}],
   [nil |-> FALSE, set |-> {500, 503}], [nil |-> FALSE, set |-> {204, 503}]}

\* What the transport answers: an error, or a response with a status.
TransportError == [err |-> TRUE, status |-> None]

Outcomes == {TransportError} \cup {[err |-> FALSE, status |-> s] : s \in Statuses}

\* What the limiter's Next answers: an error, or a time `delay` from now.
NextResults ==
  {[err |-> TRUE, delay |-> 0]}
  \cup {[err |-> FALSE, delay |-> d] : d \in -1..MaxGateDelay}

VARIABLES
  cfg,        \* the Client: [base, debug, auth, limiter, retry, backoff]
  pc,         \* where the RoundTrip call is
  i,          \* the attempt counter of the retries loop
  now,        \* the clock
  deadline,   \* when the timer of the current select fires
  ctxDone,    \* the request's context is cancelled
  observed,   \* a select of the call took its <-cxt.Done() case
  calls,      \* transport calls made (c.Client.Do)
  nexts,      \* limiter Next calls made
  updates,    \* limiter Update calls made
  req,        \* the request as the pipeline has prepared it
  lastSent,   \* the request as handed to the transport last
  tsp,        \* status of the response of the latest attempt
  rlerr,      \* what Update returned for it: [kind, after]
  allRetry,   \* every response so far was non-2xx and in c.retry
  sawSignal,  \* some Update so far returned a RetrySignal
  bodies,     \* the bodies of the responses received, by attempt: open, closed
  result      \* what RoundTrip returned: [rsp, err, status]

pvars == <<cfg, pc, i, now, deadline, ctxDone, observed, calls, nexts, updates,
           req, lastSent, tsp, rlerr, allRetry, sawSignal, bodies, result>>

VARIABLES
  mux,        \* the Mux, the producer and the options handed to Do:
              \* [n, concur, urls, errh]
  mctx,       \* the context handed to Do is cancelled
  ppc,        \* where the production goroutine of Do is
  pidx,       \* its loop index i
  queue,      \* the dispatcher's backlog of blocks
  running,    \* the blocks the dispatcher's workers are executing
  dspErr,     \* the dispatcher's terminal error
  failed,     \* the errors Client.Do returned to the blocks
  succeeded,  \* the indices of the blocks whose Client.Do succeeded
  handled,    \* the calls of the ErrorHandler: the block's index, what it returned
  asked,      \* the indices p.Request was called with, in the order of the calls
  chan,       \* the results channel proc
  iter,       \* the iterator: [open, cause]
  buf,        \* the results Collect has drained, in delivery order
  collected   \* what Collect returned: [done, rsps, err]

mvars == <<mux, mctx, ppc, pidx, queue, running, dspErr, failed, succeeded, handled, asked,
           chan, iter, buf, collected>>

VARIABLES
  hdr         \* the default-header merge of one call:
              \* [pc, client, auth, req, before, todo]

hvars == <<hdr>>

VARIABLES
  call        \* one call of a function of the package: [fn, arg, done, ret]

fvars == <<call>>

VARIABLES
  par         \* the RoundTrip calls running on one Client at the same time,
              \* each with its own [pc, i, own, ctx, res]

svars == <<par>>

vars == <<pvars, mvars, hvars, fvars, svars>>

\* ------------------------------------------------------------ helpers
Unset == [rsp |-> None, err |-> "unset", status |-> None]

ReturnRsp(s) == [rsp |-> s, err |-> "none", status |-> None]

ReturnErr(kind, s) == [rsp |-> None, err |-> kind, status |-> s]

NoSignal == [kind |-> "nil", after |-> 0]

\* The errors of the multiplexer: a nil error; an error of a unit's
\* Client.Do (an *api.Error when kind is "Status"), `of` the index of the
\* request it is about and `via` the wrapping it has got since.
NoErr == [kind |-> "nil", status |-> None, of |-> None, via |-> ""]

ApiError(status, k) == [kind |-> "Status", status |-> status, of |-> k, via |-> ""]

ProducerError(k) == [kind |-> "Producer", status |-> None, of |-> k, via |-> ""]

ContextError == [kind |-> "Context", status |-> None, of |-> None, via |-> ""]

Waits == {"gate", "rlwait", "bowait"}

\* variant: redirects taken for successes
isSuccess_Below400(status) == status >= 200 /\ status < 400

\* status >= 200 && status < 300
isSuccess(status) == status >= 200 /\ status < 300

\* an *Error with the status for a non-2xx response, else nil
checkErr(status) ==
  IF ~isSuccess(status) THEN ReturnErr("Status", status) ELSE Unset

\* variant: the ceiling tested with >
RetryExhausted_OffByOne(n) == n > maxRetries

\* i >= maxRetries: the RetrySignal can no longer be honoured
RetryExhausted(n) == n >= maxRetries

\* variant: the status tier stops one retry early
StatusRetry_TwoRetries(n, status) ==
  /\ ~cfg.retry.nil
  /\ n < maxRetries - 1
  /\ ~isSuccess(status)
  /\ status \in cfg.retry.set

\* variant: every listed status is retried, successes too
StatusRetry_AnyListed(n, status) ==
  /\ ~cfg.retry.nil
  /\ n < maxRetries
  /\ status \in cfg.retry.set

\* the guard of the status-driven retry
StatusRetry(n, status) ==
  /\ ~cfg.retry.nil
  /\ n < maxRetries
  /\ ~isSuccess(status)
  /\ status \in cfg.retry.set

\* variant: the multiplier is the counter itself
BackoffDelay_ZeroBased(n) ==
  (IF cfg.backoff > 0 THEN cfg.backoff ELSE backoffDefault) * n

\* delay = (c.backoff or backoffDefault) * (i+1)
BackoffDelay(n) ==
  (IF cfg.backoff > 0 THEN cfg.backoff ELSE backoffDefault) * (n + 1)

\* variant: a timer that fires one unit early
TimerReady_Early(t, d) == t + 1 >= d

\* time.After(d) is ready once d has elapsed; d <= 0 is ready at once
TimerReady(t, d) == t >= d

\* What Update answers: nothing, a RetrySignal for a time around now, or
\* another error.
LimiterResults(t) ==
  IF cfg.limiter
    THEN {NoSignal, [kind |-> "other", after |-> 0]}
         \cup {[kind |-> "retry", after |-> t + d] : d \in -1..MaxRetryAfter}
    ELSE {NoSignal}

\* variant: the status tier tested before the RetrySignal
Decide_StatusFirst(n, out, rl, t) ==
  IF out.err THEN [to |-> "done", res |-> ReturnErr("Transport", None), at |-> 0]
  ELSE IF StatusRetry(n, out.status)
    THEN [to |-> "bowait", res |-> Unset, at |-> t + BackoffDelay(n)]
  ELSE IF rl.kind = "retry"
    THEN IF RetryExhausted(n)
           THEN [to |-> "done", res |-> ReturnErr("RetrySignal", None), at |-> 0]
           ELSE [to |-> "rlwait", res |-> Unset, at |-> t + (rl.after - t)]
  ELSE IF checkErr(out.status) # Unset
    THEN [to |-> "done", res |-> checkErr(out.status), at |-> 0]
  ELSE IF rl.kind # "nil"
    THEN [to |-> "done", res |-> ReturnErr("RateLimit", None), at |-> 0]
  ELSE [to |-> "done", res |-> ReturnRsp(out.status), at |-> 0]

\* variant: a transport error retried with backoff
Decide_TransportRetried(n, out, rl, t) ==
  IF out.err
    THEN IF n < maxRetries
           THEN [to |-> "bowait", res |-> Unset, at |-> t + BackoffDelay(n)]
           ELSE [to |-> "done", res |-> ReturnErr("Transport", None), at |-> 0]
  ELSE IF rl.kind = "retry"
    THEN IF RetryExhausted(n)
           THEN [to |-> "done", res |-> ReturnErr("RetrySignal", None), at |-> 0]
           ELSE [to |-> "rlwait", res |-> Unset, at |-> t + (rl.after - t)]
  ELSE IF StatusRetry(n, out.status)
    THEN [to |-> "bowait", res |-> Unset, at |-> t + BackoffDelay(n)]
  ELSE IF checkErr(out.status) # Unset
    THEN [to |-> "done", res |-> checkErr(out.status), at |-> 0]
  ELSE IF rl.kind # "nil"
    THEN [to |-> "done", res |-> ReturnErr("RateLimit", None), at |-> 0]
  ELSE [to |-> "done", res |-> ReturnRsp(out.status), at |-> 0]

\* variant: an error of Update that is no RetrySignal is dropped
Decide_LimiterErrDropped(n, out, rl, t) ==
  IF out.err THEN [to |-> "done", res |-> ReturnErr("Transport", None), at |-> 0]
  ELSE IF rl.kind = "retry"
    THEN IF RetryExhausted(n)
           THEN [to |-> "done", res |-> ReturnErr("RetrySignal", None), at |-> 0]
           ELSE [to |-> "rlwait", res |-> Unset, at |-> t + (rl.after - t)]
  ELSE IF StatusRetry(n, out.status)
    THEN [to |-> "bowait", res |-> Unset, at |-> t + BackoffDelay(n)]
  ELSE IF checkErr(out.status) # Unset
    THEN [to |-> "done", res |-> checkErr(out.status), at |-> 0]
  ELSE [to |-> "done", res |-> ReturnRsp(out.status), at |-> 0]

\* One pass of the retries loop after the transport answered `out` and the
\* limiter `rl`: where the call goes and what it returns.
Decide(n, out, rl, t) ==
  IF out.err THEN [to |-> "done", res |-> ReturnErr("Transport", None), at |-> 0]
  ELSE IF rl.kind = "retry"
    THEN IF RetryExhausted(n)
           THEN [to |-> "done", res |-> ReturnErr("RetrySignal", None), at |-> 0]
           ELSE [to |-> "rlwait", res |-> Unset, at |-> t + (rl.after - t)]
  ELSE IF StatusRetry(n, out.status)
    THEN [to |-> "bowait", res |-> Unset, at |-> t + BackoffDelay(n)]
  ELSE IF checkErr(out.status) # Unset
    THEN [to |-> "done", res |-> checkErr(out.status), at |-> 0]
  ELSE IF rl.kind # "nil"
    THEN [to |-> "done", res |-> ReturnErr("RateLimit", None), at |-> 0]
  ELSE [to |-> "done", res |-> ReturnRsp(out.status), at |-> 0]

\* ------------------------------------------------------------- Init
\* No call of Mux.Do is made.
MuxOff ==
  /\ mux = [n |-> 1, concur |-> 1, urls |-> <<>>, errh |-> FALSE]
  /\ asked = <<>>
  /\ mctx = FALSE
  /\ ppc = "off"
  /\ pidx = 0
  /\ queue = <<>>
  /\ running = {}
  /\ dspErr = NoErr
  /\ failed = {}
  /\ succeeded = {}
  /\ handled = {}
  /\ chan = <<>>
  /\ iter = [open |-> TRUE, cause |-> NoErr]
  /\ buf = <<>>
  /\ collected = [done |-> FALSE, rsps |-> <<>>, err |-> NoErr]

\* No call of RoundTrip is made.
PipelineOff ==
  /\ cfg = [base |-> FALSE, debug |-> FALSE, auth |-> "none", limiter |-> FALSE,
            retry |-> [nil |-> FALSE, set |-> {}], backoff |-> 0]
  /\ pc = "off"
  /\ i = 0
  /\ now = 0
  /\ deadline = 0
  /\ ctxDone = FALSE
  /\ observed = FALSE
  /\ calls = 0
  /\ nexts = 0
  /\ updates = 0
  /\ req = [resolved |-> 0, auths |-> 0, merged |-> 0]
  /\ lastSent = req
  /\ tsp = None
  /\ bodies = <<>>
  /\ rlerr = NoSignal
  /\ allRetry = TRUE
  /\ sawSignal = FALSE
  /\ result = Unset

\* The header names: two spellings of one header, and another header.
Keys == {"x-a", "X-A", "X-B"}

\* http.CanonicalHeaderKey on these names
CanonicalHeaderKey(k) ==
  IF k = "x-a" THEN "X-A"
  ELSE IF k = "authorization" THEN "Authorization"
  ELSE k

\* A key that a header map does not hold.
NoHeader == "none"

\* An empty http.Header.
EmptyHeader == [k \in Keys |-> NoHeader]

\* The values the client's defaults hold, one per key.
ClientValue(k) ==
  IF k = "x-a" THEN "client x-a" ELSE IF k = "X-A" THEN "client X-A" ELSE "client X-B"

\* Config.Header as WithHeader and WithHeaders leave it: WithHeaders keeps
\* the keys as they were given.
ClientHeaders ==
  {[k \in Keys |-> IF k \in ks THEN ClientValue(k) ELSE NoHeader] : ks \in SUBSET Keys}

\* The headers of the request the caller hands to RoundTrip.
CallerHeaders ==
  {[k \in Keys |-> IF k \in ks THEN "caller" ELSE NoHeader] : ks \in SUBSET Keys}

\* The calls that share the Client.
Callers == 1..MaxCalls

\* The locals of a RoundTrip call that has not started: the loop counter i,
\* the retries the call itself has made, its context, what it returned.
NewCall == [pc |-> "init", i |-> 0, own |-> 0, ctx |-> FALSE, res |-> "unset"]

\* No calls run side by side.
ParOff == par = [p \in Callers |-> [NewCall EXCEPT !.pc = "off"]]

\* No function of the package is called on its own.
CallOff == call = [fn |-> "off", arg |-> None, done |-> FALSE, ret |-> None]

\* The default-header merge is not observed.
HdrOff ==
  hdr = [pc |-> "off", client |-> EmptyHeader, auth |-> "none",
         req |-> EmptyHeader, before |-> EmptyHeader, todo |-> {}]

\* One call of RoundTrip on a client of any configuration.
Init ==
  /\ MuxOff
  /\ HdrOff
  /\ CallOff
  /\ ParOff
  /\ cfg \in [base : BOOLEAN, debug : BOOLEAN, auth : {"none", "ok", "fail"}, limiter : BOOLEAN,
              retry : RetrySets, backoff : 0..MaxBackoff]
  /\ pc = "init"
  /\ i = 0
  /\ now = 0
  /\ deadline = 0
  /\ ctxDone = FALSE
  /\ observed = FALSE
  /\ calls = 0
  /\ nexts = 0
  /\ updates = 0
  /\ req = [resolved |-> 0, auths |-> 0, merged |-> 0]
  /\ lastSent = req
  /\ tsp = None
  /\ bodies = <<>>
  /\ rlerr = NoSignal
  /\ allRetry = TRUE
  /\ sawSignal = FALSE
  /\ result = Unset

\* The deferred closures run when RoundTrip returns: each closes the body
\* of its attempt's tsp unless that was set to nil, which it is for the
\* attempt `keep` whose response became rsp (0: for none).
Unravel(bs, keep) ==
  [k \in 1..Len(bs) |-> IF k = keep THEN bs[k] ELSE "closed"]

\* rsp, tsp = tsp, nil: the attempt whose response was taken as rsp
Converted(res, n) == IF res.err = "none" THEN n ELSE 0

\* The dump of the response, made when debug and verbose are on: reading
\* the body may fail, and RoundTrip then returns that error.
Dumped(res) ==
  IF cfg.debug /\ res.err = "none" THEN {res, ReturnErr("ReadBody", None)} ELSE {res}

\* variant: the limiter is asked for its window before the Authorizer runs
Consulted_BeforeAuthorize(n) == IF cfg.limiter THEN n + 1 ELSE n

\* l.Next(start, WithRequest(req)): reached when a limiter is set and
\* Authorize did not fail
Consulted(n) == IF cfg.auth # "fail" /\ cfg.limiter THEN n + 1 ELSE n

\* req.URL = c.base.ResolveReference(req.URL), when the client has a base
Resolved(n) == IF cfg.base THEN n + 1 ELSE n

\* ---------------------------------------------------------- actions
\* RoundTrip up to the rate-limit gate: resolve the URL, authorize, merge
\* the default headers, ask the limiter for the next window.
Begin ==
  /\ pc = "init"
  /\ UNCHANGED <<mvars, hvars, fvars, svars>>
  /\ UNCHANGED <<cfg, i, now, ctxDone, observed, calls, updates, lastSent,
                 tsp, rlerr, allRetry, sawSignal, bodies>>
  /\ nexts' = Consulted(nexts)
  /\ IF cfg.auth = "fail"
       THEN /\ pc' = "done"
            /\ result' = ReturnErr("Authorize", None)
            /\ req' = [req EXCEPT !.resolved = Resolved(req.resolved)]
            /\ UNCHANGED deadline
       ELSE /\ req' = [resolved |-> Resolved(req.resolved),
                       auths |-> IF cfg.auth = "ok" THEN req.auths + 1 ELSE req.auths,
                       merged |-> req.merged + 1]
            /\ IF cfg.limiter
                 THEN \E nx \in NextResults :
                        IF nx.err
                          THEN /\ pc' = "done"
                               /\ result' = ReturnErr("Next", None)
                               /\ UNCHANGED deadline
                          ELSE IF nx.delay > 0
                            THEN /\ pc' = "gate"
                                 /\ deadline' = now + nx.delay
                                 /\ UNCHANGED result
                            ELSE /\ pc' = "send"
                                 /\ UNCHANGED <<result, deadline>>
                 ELSE /\ pc' = "send"
                      /\ UNCHANGED <<result, deadline>>

\* The clock advances while the call is suspended in a select.
Tick ==
  /\ pc \in {"gate", "rlwait", "bowait"}
  /\ UNCHANGED <<mvars, hvars, fvars, svars>>
  /\ now < deadline
  /\ now' = now + 1
  /\ UNCHANGED <<cfg, pc, i, deadline, ctxDone, observed, calls, nexts, updates,
                 req, lastSent, tsp, rlerr, allRetry, sawSignal, result, bodies>>

\* The caller cancels the request's context.
Cancel ==
  /\ pc \in {"init", "gate", "send", "rlwait", "bowait"}
  /\ UNCHANGED <<mvars, hvars, fvars, svars>>
  /\ ~ctxDone
  /\ ctxDone' = TRUE
  /\ UNCHANGED <<cfg, pc, i, now, deadline, observed, calls, nexts, updates,
                 req, lastSent, tsp, rlerr, allRetry, sawSignal, result, bodies>>

\* case <-time.After(delay) of the gate's select
GateTimer ==
  /\ pc = "gate"
  /\ UNCHANGED <<mvars, hvars, fvars, svars>>
  /\ TimerReady(now, deadline)
  /\ pc' = "send"
  /\ UNCHANGED <<cfg, i, now, deadline, ctxDone, observed, calls, nexts, updates,
                 req, lastSent, tsp, rlerr, allRetry, sawSignal, result, bodies>>

\* case <-cxt.Done() of a select: return nil, context.Canceled
Cancelled ==
  /\ ctxDone
  /\ UNCHANGED <<mvars, hvars, fvars, svars>>
  /\ observed' = TRUE
  /\ pc' = "done"
  /\ result' = ReturnErr("Canceled", None)
  /\ bodies' = Unravel(bodies, 0)
  /\ UNCHANGED <<cfg, i, now, deadline, ctxDone, calls, nexts, updates,
                 req, lastSent, tsp, rlerr, allRetry, sawSignal>>

\* variant: a cancelled wait that carries on with the next attempt
Continued ==
  /\ ctxDone
  /\ UNCHANGED <<mvars, hvars, fvars, svars>>
  /\ observed' = TRUE
  /\ pc' = "send"
  /\ i' = i + 1
  /\ UNCHANGED <<cfg, now, deadline, ctxDone, calls, nexts, updates,
                 req, lastSent, tsp, rlerr, allRetry, sawSignal, result, bodies>>

\* case <-cxt.Done() of the gate's select
GateCancel ==
  /\ pc = "gate"
  /\ Cancelled

\* variant: a retry that starts over from the top of RoundTrip
RetryTimer_FromTheTop ==
  /\ pc \in {"rlwait", "bowait"}
  /\ UNCHANGED <<mvars, hvars, fvars, svars>>
  /\ TimerReady(now, deadline)
  /\ pc' = "init"
  /\ i' = i + 1
  /\ UNCHANGED <<cfg, now, deadline, ctxDone, observed, calls, nexts, updates,
                 req, lastSent, tsp, rlerr, allRetry, sawSignal, result, bodies>>

\* case <-time.After(delay) of a retry's select: continue retries
RetryTimer ==
  /\ pc \in {"rlwait", "bowait"}
  /\ UNCHANGED <<mvars, hvars, fvars, svars>>
  /\ TimerReady(now, deadline)
  /\ pc' = "send"
  /\ i' = i + 1
  /\ UNCHANGED <<cfg, now, deadline, ctxDone, observed, calls, nexts, updates,
                 req, lastSent, tsp, rlerr, allRetry, sawSignal, result, bodies>>

\* variant: the retry selects carry on when cancelled
RetryCancel_Continues ==
  /\ pc \in {"rlwait", "bowait"}
  /\ Continued

\* case <-cxt.Done() of a retry's select
RetryCancel ==
  /\ pc \in {"rlwait", "bowait"}
  /\ Cancelled

\* variant: only successful responses are reported to the limiter
Updated_SuccessOnly(out, n) ==
  IF ~out.err /\ cfg.limiter /\ isSuccess(out.status) THEN n + 1 ELSE n

\* l.Update(start, WithResponse(tsp)): called for every response when a
\* limiter is set, never after a transport error
Updated(out, n) == IF ~out.err /\ cfg.limiter THEN n + 1 ELSE n

\* One pass of the retries loop: the transport call, the limiter's Update,
\* then a retry, a classification error or the response.
Attempt ==
  /\ pc = "send"
  /\ UNCHANGED <<mvars, hvars, fvars, svars>>
  /\ \E out \in Outcomes :
     \E rl \in (IF out.err THEN {NoSignal} ELSE LimiterResults(now)) :
       LET d == Decide(i, out, rl, now)
           received == IF out.err THEN bodies ELSE Append(bodies, "open")
       IN
         /\ calls' = calls + 1
         /\ lastSent' = req
         /\ updates' = Updated(out, updates)
         /\ tsp' = out.status
         /\ rlerr' = rl
         /\ allRetry' = (allRetry /\ ~out.err /\ ~isSuccess(out.status)
                           /\ ~cfg.retry.nil /\ out.status \in cfg.retry.set)
         /\ sawSignal' = (sawSignal \/ rl.kind = "retry")
         /\ pc' = d.to
         /\ \E r \in Dumped(d.res) :
              /\ result' = r
              /\ bodies' = IF d.to = "done"
                             THEN Unravel(received, Converted(d.res, Len(received)))
                             ELSE received
         /\ deadline' = IF d.to = "done" THEN deadline ELSE d.at
  /\ UNCHANGED <<cfg, i, now, ctxDone, observed, nexts, req>>

Next ==
  \/ Begin
  \/ Tick
  \/ Cancel
  \/ GateTimer
  \/ GateCancel
  \/ RetryTimer
  \/ RetryCancel
  \/ Attempt

Spec == Init /\ [][Next]_vars

\* ======================================================= the multiplexer

\* variant: a ceiling one above the number asked for
New_OneMore(n) == [concur |-> n + 1]

\* New(c, n): concur is max(1, n)
New(n) == [concur |-> IF n > 1 THEN n ELSE 1]

\* The producers: NewGet(urls), a url being well-formed or not.
Producers ==
  UNION {[1..n -> {"ok", "bad"}] : n \in 0..MaxReqs}

\* URLRequestProducer.Request(i): nil past the end, an error for a url
\* http.NewRequest refuses, else the request for urls[i].
Request(urls, k) ==
  IF k >= Len(urls) THEN [nil |-> TRUE, req |-> None, err |-> NoErr]
  ELSE IF urls[k + 1] = "bad"
    THEN [nil |-> TRUE, req |-> None, err |-> ProducerError(k)]
  ELSE [nil |-> FALSE, req |-> k, err |-> NoErr]

\* A nil *http.Response.
NilResponse == [status |-> None, to |-> None]

\* What Client.Do returns for the request of a block: a 2xx response, which
\* answers the request sent, or an error and no response.
DoOutcomes(r) ==
  {[rsp |-> [status |-> 200, to |-> r], err |-> NoErr],
   [rsp |-> NilResponse, err |-> ApiError(404, r)]}

\* variant: the units run with a context that ends when the dispatcher fails
WithContext_EndsOnFailure == mctx \/ dspErr # NoErr

\* req.WithContext(cxt): the context of a unit's call is the one handed to
\* Do; this is whether it is cancelled
WithContext == mctx

\* What Client.Do may return besides, when its context is cancelled: the
\* error of the cancelled call.
Interrupted(r, cancelled) ==
  IF cancelled
    THEN {[rsp |-> NilResponse,
           err |-> [kind |-> "Context", status |-> None, of |-> r, via |-> ""]]}
    ELSE {}

\* The error a handler makes of the one it was given.
HandlerError(e) == [e EXCEPT !.kind = "Handler"]

\* What ErrorHandler.Handle(rsp, err) may return for a failed Do: a
\* response in place of the error, neither, the error it was given or
\* another one, or a response together with an error.
HandlerOutcomes(o) ==
  IF o.err = NoErr THEN {o}
  ELSE {[rsp |-> [status |-> 203, to |-> o.err.of], err |-> NoErr],
        [rsp |-> NilResponse, err |-> NoErr],
        [rsp |-> NilResponse, err |-> o.err],
        [rsp |-> NilResponse, err |-> HandlerError(o.err)],
        [rsp |-> [status |-> 203, to |-> o.err.of], err |-> HandlerError(o.err)]}

\* err != nil && errh != nil
Handles(o, errh) == o.err # NoErr /\ errh

\* variant: the handler is asked but the error of Do is kept
Handle_KeepsError(o, h, errh) ==
  IF Handles(o, errh) THEN [h EXCEPT !.err = o.err] ELSE o

\* rsp, err = errh.Handle(rsp, err), when the handler is asked
Handle(o, h, errh) == IF Handles(o, errh) THEN h ELSE o

\* variant: the error formatted with %v, its chain lost
Wrap_NoChain(e) ==
  [kind |-> "Multiplex", status |-> None, of |-> e.of, via |-> "multiplex"]

\* fmt.Errorf("Could not multiplex request: %w", err)
Wrap(e) == [e EXCEPT !.via = "multiplex"]

\* block(cxt, conf, mux, i, req, iter): the closure over i and req
\* variant: a closure that does not keep its own index
block_IndexOfLast(k, r) == [i |-> 0, req |-> r, phase |-> "do", rsp |-> NilResponse]

block(k, r) == [i |-> k, req |-> r, phase |-> "do", rsp |-> NilResponse]

\* &Result{Index: i, Response: rsp}
Result(u) == [Index |-> u.i, Response |-> u.rsp]

\* iter.Cancel(err): the first cancellation stays
CancelIter(it, e) == IF it.open THEN [open |-> FALSE, cause |-> e] ELSE it

\* sort.Sort(resultSet(buf)): by ascending Index
RECURSIVE Insert(_, _)
Insert(sorted, r) ==
  IF sorted = <<>> THEN <<r>>
  ELSE IF r.Index < Head(sorted).Index THEN <<r>> \o sorted
  ELSE <<Head(sorted)>> \o Insert(Tail(sorted), r)

\* variant: the results left in delivery order
SortByIndex_Unsorted(rs) == rs

RECURSIVE SortByIndex(_)
SortByIndex(rs) ==
  IF rs = <<>> THEN <<>>
  ELSE Insert(SortByIndex(SubSeq(rs, 1, Len(rs) - 1)), rs[Len(rs)])

\* the tail of Collect: sort, then the responses in that order
CollectResponses(rs) ==
  LET sorted == SortByIndex(rs)
  IN [k \in 1..Len(sorted) |-> sorted[k].Response]

\* The error of a dsp.Run that fails: Do returns it and no iterator.
RunError == [kind |-> "Run", status |-> None, of |-> None, via |-> ""]

\* One call of Mux.Do, which starts the loop or fails at dsp.Run, and of
\* Collect on what it returned.
MuxInit ==
  /\ PipelineOff
  /\ HdrOff
  /\ CallOff
  /\ ParOff
  /\ \E n \in 0..MaxConcur, urls \in Producers, h \in BOOLEAN :
       mux = [n |-> n, concur |-> New(n).concur, urls |-> urls, errh |-> h]
  /\ mctx = FALSE
  /\ \/ ppc = "loop" /\ dspErr = NoErr
     \/ ppc = "failed" /\ dspErr = RunError
  /\ pidx = 0
  /\ queue = <<>>
  /\ running = {}
  /\ failed = {}
  /\ succeeded = {}
  /\ handled = {}
  /\ asked = <<>>
  /\ chan = <<>>
  /\ iter = [open |-> TRUE, cause |-> NoErr]
  /\ buf = <<>>
  /\ collected = [done |-> FALSE, rsps |-> <<>>, err |-> NoErr]

\* The caller cancels the context handed to Do.
MuxCancel ==
  /\ ppc # "off"
  /\ ~mctx
  /\ ~collected.done
  /\ mctx' = TRUE
  /\ UNCHANGED <<pvars, hvars, fvars, svars>>
  /\ UNCHANGED <<asked, mux, ppc, pidx, queue, running, dspErr, failed, succeeded, handled, chan, iter,
                 buf, collected>>

\* variant: the loop closes the iterator itself when the producer is
\* exhausted, without waiting for the dispatcher
Produce_ClosesAtOnce ==
  /\ ppc = "loop"
  /\ UNCHANGED <<pvars, hvars, fvars, svars>>
  /\ UNCHANGED <<mux, mctx, pidx, queue, running, dspErr, failed, succeeded, handled, chan, buf,
                 collected>>
  /\ asked' = IF mctx THEN asked ELSE Append(asked, pidx)
  /\ IF mctx
       THEN /\ ppc' = "defer"
            /\ UNCHANGED iter
       ELSE LET r == Request(mux.urls, pidx) IN
              IF r.err # NoErr
                THEN /\ iter' = CancelIter(iter, r.err)
                     /\ ppc' = "defer"
                ELSE IF r.nil
                  THEN /\ ppc' = "defer"
                       /\ iter' = CancelIter(iter, NoErr)
                  ELSE /\ ppc' = "exec"
                       /\ UNCHANGED iter

\* variant: an error of the producer only ends the loop
Produce_ErrorBreaks ==
  /\ ppc = "loop"
  /\ UNCHANGED <<pvars, hvars, fvars, svars>>
  /\ UNCHANGED <<mux, mctx, pidx, queue, running, dspErr, failed, succeeded, handled, chan, buf,
                 collected, iter>>
  /\ asked' = IF mctx THEN asked ELSE Append(asked, pidx)
  /\ IF mctx
       THEN ppc' = "defer"
       ELSE LET r == Request(mux.urls, pidx) IN
              IF r.err # NoErr \/ r.nil
                THEN ppc' = "defer"
                ELSE ppc' = "exec"

\* The production loop from its top to the call of dsp.Exec.
Produce ==
  /\ ppc = "loop"
  /\ UNCHANGED <<pvars, hvars, fvars, svars>>
  /\ UNCHANGED <<mux, mctx, pidx, queue, running, dspErr, failed, succeeded, handled, chan, buf,
                 collected>>
  /\ asked' = IF mctx THEN asked ELSE Append(asked, pidx)
  /\ IF mctx
       THEN /\ ppc' = "defer"
            /\ UNCHANGED iter
       ELSE LET r == Request(mux.urls, pidx) IN
              IF r.err # NoErr
                THEN /\ iter' = CancelIter(iter, r.err)
                     /\ ppc' = "defer"
                ELSE IF r.nil
                  THEN /\ ppc' = "defer"
                       /\ UNCHANGED iter
                  ELSE /\ ppc' = "exec"
                       /\ UNCHANGED iter

\* variant: a backlog without a limit, dsp.Exec never blocks
ExecEnqueue_NeverBlocks ==
  /\ ppc = "exec"
  /\ dspErr = NoErr
  /\ queue' = Append(queue, block(pidx, Request(mux.urls, pidx).req))
  /\ pidx' = pidx + 1
  /\ ppc' = "loop"
  /\ UNCHANGED <<pvars, hvars, fvars, svars>>
  /\ UNCHANGED <<asked, mux, mctx, running, dspErr, failed, succeeded, handled, chan, iter, buf, collected>>

\* variant: the loop index advanced by two
ExecEnqueue_SkipsIndex ==
  /\ ppc = "exec"
  /\ dspErr = NoErr
  /\ Len(queue) < mux.concur
  /\ queue' = Append(queue, block(pidx, Request(mux.urls, pidx).req))
  /\ pidx' = pidx + 2
  /\ ppc' = "loop"
  /\ UNCHANGED <<pvars, hvars, fvars, svars>>
  /\ UNCHANGED <<asked, mux, mctx, running, dspErr, failed, succeeded, handled, chan, iter, buf, collected>>

\* variant: a dispatcher that still takes blocks after it has failed
ExecEnqueue_AfterFailure ==
  /\ ppc = "exec"
  /\ Len(queue) < mux.concur
  /\ queue' = Append(queue, block(pidx, Request(mux.urls, pidx).req))
  /\ pidx' = pidx + 1
  /\ ppc' = "loop"
  /\ UNCHANGED <<pvars, hvars, fvars, svars>>
  /\ UNCHANGED <<asked, mux, mctx, running, dspErr, failed, succeeded, handled, chan, iter, buf, collected>>

\* dsp.Exec(block(...)) takes the block into the backlog.
ExecEnqueue ==
  /\ ppc = "exec"
  /\ dspErr = NoErr
  /\ Len(queue) < mux.concur
  /\ queue' = Append(queue, block(pidx, Request(mux.urls, pidx).req))
  /\ pidx' = pidx + 1
  /\ ppc' = "loop"
  /\ UNCHANGED <<pvars, hvars, fvars, svars>>
  /\ UNCHANGED <<asked, mux, mctx, running, dspErr, failed, succeeded, handled, chan, iter, buf, collected>>

\* dsp.Exec returns exec.ErrCanceled: the dispatcher has stopped.
ExecCanceled ==
  /\ ppc = "exec"
  /\ dspErr # NoErr \/ mctx
  /\ ppc' = "defer"
  /\ UNCHANGED <<pvars, hvars, fvars, svars>>
  /\ UNCHANGED <<asked, mux, mctx, pidx, queue, running, dspErr, failed, succeeded, handled, chan, iter,
                 buf, collected>>

\* A free worker of the dispatcher takes the next block of the backlog.
WorkerStart ==
  /\ queue # <<>>
  /\ Cardinality(running) < mux.concur
  /\ running' = running \cup {Head(queue)}
  /\ queue' = Tail(queue)
  /\ UNCHANGED <<pvars, hvars, fvars, svars>>
  /\ UNCHANGED <<asked, mux, mctx, ppc, pidx, dspErr, failed, succeeded, handled, chan, iter, buf, collected>>

\* A stopped dispatcher discards a block of its backlog.
WorkerDrop ==
  /\ queue # <<>>
  /\ dspErr # NoErr \/ mctx
  /\ queue' = Tail(queue)
  /\ UNCHANGED <<pvars, hvars, fvars, svars>>
  /\ UNCHANGED <<asked, mux, mctx, ppc, pidx, running, dspErr, failed, succeeded, handled, chan, iter, buf,
                 collected>>

\* The block from Client.Do to its return or its iter.Write: the handler is
\* asked when Do failed and a handler is set; an error left fails the block,
\* wrapped, and the dispatcher keeps the first error returned to it; no
\* error and no response ends the block without a Result.
BlockDo ==
  /\ \E u \in running :
     \E o \in DoOutcomes(u.req) \cup Interrupted(u.req, WithContext) :
     \E h \in HandlerOutcomes(o) :
       LET f == Handle(o, h, mux.errh) IN
       /\ u.phase = "do"
       /\ failed' = IF o.err # NoErr THEN failed \cup {o.err} ELSE failed
       /\ succeeded' = IF o.err = NoErr THEN succeeded \cup {u.i} ELSE succeeded
       /\ handled' = IF Handles(o, mux.errh)
                       THEN handled \cup {[i |-> u.i, rsp |-> h.rsp, err |-> h.err]}
                       ELSE handled
       /\ IF f.err # NoErr
            THEN /\ running' = running \ {u}
                 /\ dspErr' = IF dspErr = NoErr THEN Wrap(f.err) ELSE dspErr
            ELSE IF f.rsp = NilResponse
              THEN /\ running' = running \ {u}
                   /\ UNCHANGED dspErr
              ELSE /\ running' = (running \ {u})
                                   \cup {[u EXCEPT !.phase = "write", !.rsp = f.rsp]}
                   /\ UNCHANGED dspErr
  /\ UNCHANGED <<pvars, hvars, fvars, svars>>
  /\ UNCHANGED <<asked, mux, mctx, ppc, pidx, queue, chan, iter, buf, collected>>

\* The block's iter.Write sends its Result into the channel.
BlockWrite ==
  /\ \E u \in running :
       /\ u.phase = "write"
       /\ Len(chan) < mux.concur
       /\ chan' = Append(chan, Result(u))
       /\ running' = running \ {u}
  /\ UNCHANGED <<pvars, hvars, fvars, svars>>
  /\ UNCHANGED <<asked, mux, mctx, ppc, pidx, queue, dspErr, failed, succeeded, handled, iter, buf, collected>>

\* variant: iter.Write on a cancelled iterator blocks for ever
BlockWriteRefused_Blocks ==
  /\ ~iter.open
  /\ FALSE
  /\ UNCHANGED vars

\* iter.Write on a cancelled iterator fails and the block returns the error.
BlockWriteRefused ==
  /\ ~iter.open
  /\ \E u \in running :
       /\ u.phase = "write"
       /\ running' = running \ {u}
       /\ dspErr' = IF dspErr = NoErr THEN iter.cause ELSE dspErr
  /\ UNCHANGED <<pvars, hvars, fvars, svars>>
  /\ UNCHANGED <<asked, mux, mctx, ppc, pidx, queue, failed, succeeded, handled, chan, iter, buf, collected>>

\* The deferred iter.Cancel(dsp.Error()) of the production goroutine:
\* dsp.Error() returns once the dispatcher's work has ended.
DeferCancel ==
  /\ ppc = "defer"
  /\ queue = <<>>
  /\ running = {}
  /\ \E e \in {dspErr} \cup (IF dspErr = NoErr /\ mctx THEN {ContextError} ELSE {}) :
       iter' = CancelIter(iter, e)
  /\ ppc' = "exit"
  /\ UNCHANGED <<pvars, hvars, fvars, svars>>
  /\ UNCHANGED <<asked, mux, mctx, pidx, queue, running, dspErr, failed, succeeded, handled, chan, buf,
                 collected>>

\* Collect's iter.Next() returns a Result, which Collect appends to buf.
CollectNext ==
  /\ ppc # "off"
  /\ ~collected.done
  /\ chan # <<>>
  /\ buf' = Append(buf, Head(chan))
  /\ chan' = Tail(chan)
  /\ UNCHANGED <<pvars, hvars, fvars, svars>>
  /\ UNCHANGED <<asked, mux, mctx, ppc, pidx, queue, running, dspErr, failed, succeeded, handled, iter,
                 collected>>

\* variant: the closed sentinel is returned to the caller as an error
CollectClosed_ReturnsSentinel ==
  /\ ~collected.done
  /\ ~iter.open
  /\ iter.cause = NoErr
  /\ chan = <<>>
  /\ collected' = [done |-> TRUE, rsps |-> <<>>,
                   err |-> [kind |-> "Closed", status |-> None, of |-> None, via |-> ""]]
  /\ UNCHANGED <<pvars, hvars, fvars, svars>>
  /\ UNCHANGED <<asked, mux, mctx, ppc, pidx, queue, running, dspErr, failed, succeeded, handled, chan, iter,
                 buf>>

\* Collect's iter.Next() returns siter.ErrClosed: sort and return.
CollectClosed ==
  /\ ~collected.done
  /\ ~iter.open
  /\ iter.cause = NoErr
  /\ chan = <<>>
  /\ collected' = [done |-> TRUE, rsps |-> CollectResponses(buf), err |-> NoErr]
  /\ UNCHANGED <<pvars, hvars, fvars, svars>>
  /\ UNCHANGED <<asked, mux, mctx, ppc, pidx, queue, running, dspErr, failed, succeeded, handled, chan, iter,
                 buf>>

\* Collect(iter, err) with the error of Do: return nil, err.
CollectHanded ==
  /\ ppc = "failed"
  /\ ~collected.done
  /\ collected' = [done |-> TRUE, rsps |-> <<>>, err |-> dspErr]
  /\ UNCHANGED <<pvars, hvars, fvars, svars>>
  /\ UNCHANGED <<asked, mux, mctx, ppc, pidx, queue, running, dspErr, failed, succeeded, handled, chan, iter,
                 buf>>

\* variant: an error of Next ends Collect with the responses drained so far
CollectFailed_KeepsDrained ==
  /\ ~collected.done
  /\ ~iter.open
  /\ iter.cause # NoErr
  /\ collected' = [done |-> TRUE, rsps |-> CollectResponses(buf), err |-> iter.cause]
  /\ UNCHANGED <<pvars, hvars, fvars, svars>>
  /\ UNCHANGED <<asked, mux, mctx, ppc, pidx, queue, running, dspErr, failed, succeeded, handled, chan, iter,
                 buf>>

\* Collect's iter.Next() returns the cancellation cause: return nil, err.
CollectFailed ==
  /\ ~collected.done
  /\ ~iter.open
  /\ iter.cause # NoErr
  /\ collected' = [done |-> TRUE, rsps |-> <<>>, err |-> iter.cause]
  /\ UNCHANGED <<pvars, hvars, fvars, svars>>
  /\ UNCHANGED <<asked, mux, mctx, ppc, pidx, queue, running, dspErr, failed, succeeded, handled, chan, iter,
                 buf>>

MuxNext ==
  \/ MuxCancel
  \/ Produce
  \/ ExecEnqueue
  \/ ExecCanceled
  \/ WorkerStart
  \/ WorkerDrop
  \/ BlockDo
  \/ BlockWrite
  \/ BlockWriteRefused
  \/ DeferCancel
  \/ CollectNext
  \/ CollectClosed
  \/ CollectFailed
  \/ CollectHanded

MuxSpec == MuxInit /\ [][MuxNext]_vars

\* The same with the scheduling the claims of termination assume: every
\* goroutine that can take a step takes one at some time, a transport call
\* returns, and the consumer keeps calling Next.  The caller is free to
\* cancel or not.
MuxLiveSpec ==
  /\ MuxSpec
  /\ WF_vars(Produce)
  /\ WF_vars(ExecEnqueue)
  /\ WF_vars(ExecCanceled)
  /\ WF_vars(WorkerStart)
  /\ WF_vars(WorkerDrop)
  /\ WF_vars(BlockDo)
  /\ WF_vars(BlockWrite)
  /\ WF_vars(BlockWriteRefused)
  /\ WF_vars(DeferCancel)
  /\ WF_vars(CollectNext)
  /\ WF_vars(CollectClosed)
  /\ WF_vars(CollectFailed)
  /\ WF_vars(CollectHanded)

\* ==================================================== the default headers
\* HeaderAuthorizer.Authorize: req.Header.Set(k, v[0]), which canonicalises
\* the key; the authorizer here holds the one header "x-a".
Authorized(h, a) ==
  IF a = "header" THEN [h EXCEPT ![CanonicalHeaderKey("x-a")] = "auth"] ELSE h

\* One pass of the merge loop, for the client's key k.
MergeOne(h, c, k) ==
  LET n == CanonicalHeaderKey(k)
  IN IF h[n] = NoHeader THEN [h EXCEPT ![n] = c[k]] ELSE h

\* RoundTrip's authorization and default-header merge on one request.
HeaderInit ==
  /\ PipelineOff
  /\ MuxOff
  /\ CallOff
  /\ ParOff
  /\ hdr \in {[pc |-> "auth", client |-> c, auth |-> a, req |-> r, before |-> r,
                todo |-> {}] :
                 c \in ClientHeaders, a \in {"none", "header"}, r \in CallerHeaders}

\* c.auth.Authorize(req); the merge loop then ranges over c.header.
HeaderAuthorize ==
  /\ hdr.pc = "auth"
  /\ hdr' = [hdr EXCEPT !.pc = "merge",
                         !.req = Authorized(hdr.req, hdr.auth),
                         !.before = Authorized(hdr.req, hdr.auth),
                         !.todo = {k \in Keys : hdr.client[k] # NoHeader}]
  /\ UNCHANGED <<pvars, mvars, fvars, svars>>

\* One iteration of `for k, v := range c.header`: the order of a range over
\* a map is not determined.
HeaderMerge ==
  /\ hdr.pc = "merge"
  /\ \E k \in hdr.todo :
       hdr' = [hdr EXCEPT !.req = MergeOne(hdr.req, hdr.client, k),
                          !.todo = hdr.todo \ {k}]
  /\ UNCHANGED <<pvars, mvars, fvars, svars>>

\* The loop has ended: the request goes on to the gate and the transport.
HeaderSend ==
  /\ hdr.pc = "merge"
  /\ hdr.todo = {}
  /\ hdr' = [hdr EXCEPT !.pc = "sent"]
  /\ UNCHANGED <<pvars, mvars, fvars, svars>>

HeaderNext ==
  \/ HeaderAuthorize
  \/ HeaderMerge
  \/ HeaderSend

HeaderSpec == HeaderInit /\ [][HeaderNext]_vars

\* ============================================== functions of the package
\* The statuses a response can carry.
AllStatuses == 100..599

\* variant: the case of 422 is missing from the switch
Sentinel_No422(status) ==
  CASE status = 400 -> "ErrBadRequest"
    [] status = 401 -> "ErrUnauthorized"
    [] status = 403 -> "ErrForbidden"
    [] status = 404 -> "ErrNotFound"
    [] status = 500 -> "ErrInternalServerError"
    [] OTHER -> "nil"

\* checkErr's switch on rsp.StatusCode: the cause set on the *Error
Sentinel(status) ==
  CASE status = 400 -> "ErrBadRequest"
    [] status = 401 -> "ErrUnauthorized"
    [] status = 403 -> "ErrForbidden"
    [] status = 404 -> "ErrNotFound"
    [] status = 422 -> "ErrUnprocessableEntity"
    [] status = 500 -> "ErrInternalServerError"
    [] OTHER -> "nil"

\* checkErr(reqid, req, rsp): nil for a 2xx response, else the *Error with
\* its Status and Cause
CheckErrResult(status) ==
  IF checkErr(status) = Unset
    THEN [nil |-> TRUE, Status |-> None, Cause |-> "nil"]
    ELSE [nil |-> FALSE, Status |-> checkErr(status).status, Cause |-> Sentinel(status)]

\* The calls of checkErr: one per status.
CheckErrCalls ==
  {[fn |-> "checkErr", arg |-> s, done |-> FALSE, ret |-> None] : s \in AllStatuses}

\* The clients WithBase and WithAuthorizer are called on: the fields of
\* Client, each with two values or more.
Clients ==
  [Client : {"shared", "own"}, auth : {"none", "basic"}, limiter : BOOLEAN,
   retry : RetrySets, backoff : 0..MaxBackoff, base : {"nil", "https://a/"},
   header : {"nil", "defaults"}, dctype : {"application/json"},
   debug : BOOLEAN]

\* c.WithBase(b): a new Client built from the fields the literal names
WithBase(c, b) ==
  [Client |-> c.Client, auth |-> c.auth, limiter |-> c.limiter,
   retry |-> [nil |-> TRUE, set |-> {}], backoff |-> 0, base |-> b,
   header |-> c.header, dctype |-> c.dctype, debug |-> c.debug]

\* c.WithAuthorizer(a): a new Client built from the fields the literal names
WithAuthorizer(c, a) ==
  [Client |-> c.Client, auth |-> a, limiter |-> c.limiter,
   retry |-> [nil |-> TRUE, set |-> {}], backoff |-> 0, base |-> c.base,
   header |-> c.header, dctype |-> c.dctype, debug |-> c.debug]

\* The calls of WithBase and WithAuthorizer: the receiver and the new value.
DeriveCalls ==
  {[fn |-> "WithBase", arg |-> [c |-> c, new |-> b], done |-> FALSE, ret |-> None] :
     c \in Clients, b \in {"nil", "https://b/"}}
  \cup
  {[fn |-> "WithAuthorizer", arg |-> [c |-> c, new |-> a], done |-> FALSE, ret |-> None] :
     c \in Clients, a \in {"none", "bearer"}}

\* The header names of a dumped message: Authorization in two spellings,
\* and a header that is not sensitive.
DumpKeys == {"Authorization", "authorization", "Accept"}

\* The header values, their lengths in bytes and their SHA-256 digests.
DumpValues == {"tok-a", "tok-bb", "text/csv"}

ByteLen(v) == IF v = "tok-a" THEN 5 ELSE IF v = "tok-bb" THEN 6 ELSE 8

Sha256(v) ==
  IF v = "tok-a" THEN "digest-1" ELSE IF v = "tok-bb" THEN "digest-2" ELSE "digest-3"

\* The headers of a request or response that is dumped.
DumpHeaders == [DumpKeys -> DumpValues \cup {NoHeader}]

\* sensitiveHeaders and defaultAllowHeader
defaultAllowHeader(n) == n \notin {CanonicalHeaderKey("Authorization")}

\* A value written as it is, and the placeholder written in its place:
\* "<apiclient: redacted %d bytes; SHA256=%s>".
Raw(v) == [redacted |-> FALSE, bytes |-> ByteLen(v), text |-> v]

Redacted(v) == [redacted |-> TRUE, bytes |-> ByteLen(v), text |-> Sha256(v)]

\* sanitizeHeaders(hdr, defaultAllowHeader), as the lines its Write gives
sanitizeHeaders(h) ==
  {[key |-> CanonicalHeaderKey(k),
    value |-> IF defaultAllowHeader(CanonicalHeaderKey(k)) THEN Raw(h[k]) ELSE Redacted(h[k])] :
     k \in {x \in DumpKeys : h[x] # NoHeader}}

\* dumpReq and dumpRsp: the sanitized headers are written.
dumpReq(h) == sanitizeHeaders(h)

\* RoundTrip with debug on: req.Header.Write(b), rsp.Header.Write(b) and
\* fmt.Println of the buffer.
RoundTripDump(h) ==
  {[key |-> k, value |-> Raw(h[k])] : k \in {x \in DumpKeys : h[x] # NoHeader}}

\* The header dumps: by dumpReq/dumpRsp, and by RoundTrip itself.
DumpCalls ==
  {[fn |-> f, arg |-> h, done |-> FALSE, ret |-> None] :
     f \in {"dumpReq", "RoundTrip"}, h \in DumpHeaders}

\* ---- httputil: the Link header.  A header value is a sequence of tokens:
\* the delimiters "<", ">", ",", ";", the blank " ", the text of a URL
\* ("u1", "u2": of the first, the second link) and whole parameters.
\* The most links a header holds.
MaxLinks == 2

\* The links a server puts into the header: the URL in angle brackets, with
\* a comma in its text, or without brackets; rel, results and a parameter
\* that has no "=".
LinkForms ==
  [url : {"plain", "comma", "bare"}, rel : {"none", "next", "prev"},
   results : {"none", "true", "false"}, bad : BOOLEAN]

\* The text of the URL of the k-th link.
URLText(l, k) ==
  LET u == IF k = 1 THEN "u1" ELSE "u2"
  IN IF l.url = "comma" THEN <<u, ",", u>> ELSE <<u>>

\* The link as it stands in the header: <url>; rel="..."; results="..."
LinkTokens(l, k) ==
  (IF l.url = "bare" THEN URLText(l, k) ELSE <<"<">> \o URLText(l, k) \o <<">">>)
  \o (IF l.rel = "next" THEN <<";", " ", "rel=next">>
      ELSE IF l.rel = "prev" THEN <<";", " ", "rel=prev">> ELSE <<>>)
  \o (IF l.results = "true" THEN <<";", " ", "results=true">>
      ELSE IF l.results = "false" THEN <<";", " ", "results=false">> ELSE <<>>)
  \o (IF l.bad THEN <<";", " ", "oops">> ELSE <<>>)

\* The header value: the links joined by ", ".
RECURSIVE HeaderTokens(_, _)
HeaderTokens(ls, k) ==
  IF k > Len(ls) THEN <<>>
  ELSE LinkTokens(ls[k], k)
         \o (IF k < Len(ls) THEN <<",", " ">> ELSE <<>>)
         \o HeaderTokens(ls, k + 1)

\* strings.Index(s, t), counted from 1; 0 when t is not in s
RECURSIVE IndexOf(_, _, _)
IndexOf(s, t, k) ==
  IF k > Len(s) THEN 0 ELSE IF s[k] = t THEN k ELSE IndexOf(s, t, k + 1)

RECURSIVE TrimLeft(_)
TrimLeft(s) == IF s # <<>> /\ Head(s) = " " THEN TrimLeft(Tail(s)) ELSE s

RECURSIVE TrimRight(_)
TrimRight(s) ==
  IF s # <<>> /\ s[Len(s)] = " " THEN TrimRight(SubSeq(s, 1, Len(s) - 1)) ELSE s

\* strings.TrimSpace
TrimSpace(s) == TrimRight(TrimLeft(s))

\* strings.Split(s, ";")
RECURSIVE Split(_)
Split(s) ==
  LET x == IndexOf(s, ";", 1)
  IN IF x = 0 THEN <<s>>
     ELSE <<SubSeq(s, 1, x - 1)>> \o Split(SubSeq(s, x + 1, Len(s)))

\* parseParam on one piece of the arguments: the piece must hold a "=",
\* with a key before it.  The pieces met here hold one parameter.
parseParam(a) ==
  LET t == TrimSpace(a)
  IN IF t = <<"rel=next">> THEN [err |-> FALSE, key |-> "rel", val |-> "next"]
     ELSE IF t = <<"rel=prev">> THEN [err |-> FALSE, key |-> "rel", val |-> "prev"]
     ELSE IF t = <<"results=true">> THEN [err |-> FALSE, key |-> "results", val |-> "true"]
     ELSE IF t = <<"results=false">> THEN [err |-> FALSE, key |-> "results", val |-> "false"]
     ELSE [err |-> TRUE, key |-> "", val |-> ""]

\* The loop over the arguments of a link: params[key] = val, an error of
\* parseParam ending it.
RECURSIVE parseParams(_, _)
parseParams(args, ps) ==
  IF args = <<>> THEN ps
  ELSE IF Len(Head(args)) = 0 THEN parseParams(Tail(args), ps)
  ELSE LET r == parseParam(Head(args))
       IN IF r.err THEN [ps EXCEPT !.err = TRUE]
          ELSE parseParams(Tail(args), [ps EXCEPT ![r.key] = r.val])

\* No link of a rel.
NoLink == [set |-> FALSE, URL |-> <<>>, results |-> "none"]

\* The end of a pass of parseLinks: the blanks before the next link are
\* skipped; a rest of blanks only stays as it is.
SkipSpace(s) == IF TrimLeft(s) = <<>> THEN s ELSE TrimLeft(s)

\* parseLinks(src): the links by rel, or an error
RECURSIVE parseLinks(_, _)
parseLinks(src, links) ==
  IF Len(src) = 0 THEN [err |-> "nil", links |-> links]
  ELSE
    LET x == IndexOf(src, ",", 1)
        part == IF x > 1 THEN SubSeq(src, 1, x - 1) ELSE src
        rest == IF x > 1 THEN SubSeq(src, x + 1, Len(src)) ELSE <<>>
        y == IndexOf(part, ";", 1)
        url == IF y > 1 THEN TrimSpace(SubSeq(part, 1, y - 1)) ELSE TrimSpace(part)
        arg == IF y > 1 THEN TrimSpace(SubSeq(part, y + 1, Len(part))) ELSE <<>>
    IN IF Len(url) < 2 \/ url[1] # "<" \/ url[Len(url)] # ">"
         THEN [err |-> "errMalformedLinks", links |-> links]
         ELSE
           LET ps == parseParams(Split(arg),
                                 [err |-> FALSE, rel |-> "none", results |-> "none"])
           IN IF ps.err THEN [err |-> "errMalformedParam", links |-> links]
              ELSE parseLinks(SkipSpace(rest),
                     IF ps.rel = "none" THEN links
                     ELSE [links EXCEPT ![ps.rel] =
                             [set |-> TRUE, URL |-> SubSeq(url, 2, Len(url) - 1),
                              results |-> ps.results]])

\* NextPage(rsp), through ParseNext: rsp is [nil, link], link the value of
\* its Link header, empty when there is none
NextPage(rsp) ==
  IF rsp.nil \/ rsp.link = <<>> THEN [url |-> <<>>, err |-> "nil"]
  ELSE LET r == parseLinks(rsp.link, [next |-> NoLink, prev |-> NoLink])
       IN IF r.err # "nil" THEN [url |-> <<>>, err |-> r.err]
          ELSE IF ~r.links.next.set THEN [url |-> <<>>, err |-> "nil"]
          ELSE IF r.links.next.results \notin {"none", "true"}
            THEN [url |-> <<>>, err |-> "nil"]
          ELSE [url |-> r.links.next.URL, err |-> "nil"]

\* The calls of NextPage: on no response, and on a response with a header
\* of up to MaxLinks links.
NextPageCalls ==
  {[fn |-> "NextPage", arg |-> [nil |-> TRUE, links |-> <<>>], done |-> FALSE, ret |-> None]}
  \cup
  {[fn |-> "NextPage", arg |-> [nil |-> FALSE, links |-> ls], done |-> FALSE, ret |-> None] :
     ls \in UNION {[1..n -> LinkForms] : n \in 0..MaxLinks}}

\* ------------------------------------------------ multiplex.Unmarshal
\* What decides api.Unmarshal for a response: its status, its Content-Type
\* and whether the decoder of that type accepts its body.
RspForms ==
  {[status |-> 200, ctype |-> "text/plain", body |-> "ok"],
   [status |-> 200, ctype |-> "text/plain", body |-> "bad"],
   [status |-> 200, ctype |-> "application/json", body |-> "ok"],
   [status |-> 200, ctype |-> "", body |-> "ok"],
   [status |-> 204, ctype |-> "", body |-> "ok"]}

\* The entity types of a call: one that is an encoding.TextUnmarshaler
\* (the number of the tests) and a plain struct.
EntityTypes == {"text", "struct"}

\* var e E
ZeroEntity == [of |-> None, val |-> "zero"]

\* An entity the caller's slice held before the call.
OldEntity == [of |-> None, val |-> "old"]

DecodeError(kind, rsp) == [kind |-> kind, status |-> None, of |-> rsp.to, via |-> ""]

\* api.Unmarshal(rsp, &e): 204 leaves the zero entity; else the decoder is
\* chosen by the media type, and a type with no decoder for E is refused.
apiUnmarshal(rsp, E) ==
  IF rsp.status = 204 THEN [e |-> ZeroEntity, err |-> NoErr]
  ELSE IF rsp.ctype = "" THEN [e |-> ZeroEntity, err |-> DecodeError("MediaType", rsp)]
  ELSE IF rsp.ctype = "application/json"
    THEN IF rsp.body = "ok"
           THEN [e |-> [of |-> rsp.to, val |-> "json"], err |-> NoErr]
           ELSE [e |-> ZeroEntity, err |-> DecodeError("Decode", rsp)]
  ELSE IF rsp.ctype = "text/plain"
    THEN IF E # "text" THEN [e |-> ZeroEntity, err |-> DecodeError("Unsupported", rsp)]
         ELSE IF rsp.body = "ok"
           THEN [e |-> [of |-> rsp.to, val |-> "text"], err |-> NoErr]
           ELSE [e |-> ZeroEntity, err |-> DecodeError("Decode", rsp)]
  ELSE [e |-> ZeroEntity, err |-> DecodeError("Unsupported", rsp)]

\* fmt.Errorf("Could not collect responses: %w", err)
WrapCollect(e) == [e EXCEPT !.via = "collect"]

\* for _, r := range rsps: decode, return at the first error, else append
RECURSIVE Decode(_, _, _)
Decode(rsps, E, ents) ==
  IF rsps = <<>> THEN [ents |-> ents, err |-> NoErr]
  ELSE LET d == apiUnmarshal(Head(rsps), E)
       IN IF d.err # NoErr THEN [ents |-> <<>>, err |-> d.err]
          ELSE Decode(Tail(rsps), E, Append(ents, d.e))

\* variant: the entities appended to the contents of the caller's slice
Unmarshal_KeepsContents(a) ==
  IF a.cause # NoErr THEN [ents |-> <<>>, err |-> WrapCollect(a.cause)]
  ELSE Decode(CollectResponses(a.results), a.E, a.ents)

\* Unmarshal(iter, ents), the iterator giving a.results and then the closed
\* sentinel or the cause a.cause: Collect(iter, nil), ents[0:0:len(ents)],
\* then the loop.
Unmarshal(a) ==
  IF a.cause # NoErr THEN [ents |-> <<>>, err |-> WrapCollect(a.cause)]
  ELSE Decode(CollectResponses(a.results), a.E, SubSeq(a.ents, 1, 0))

\* What an iterator of Do can give: Results of distinct indices in any
\* order of delivery, a Result pairing an index with the response to its
\* request; an index is left out when a handler consumed the unit's error.
Deliveries ==
  LET slots == (0..(MaxReqs - 1)) \X RspForms
      seqs  == UNION {[1..n -> slots] : n \in 0..MaxReqs}
      res(t) == [Index |-> t[1],
                 Response |-> [status |-> t[2].status, to |-> t[1],
                               ctype |-> t[2].ctype, body |-> t[2].body]]
  IN {[k \in DOMAIN q |-> res(q[k])] :
        q \in {q \in seqs : \A j, k \in DOMAIN q : j # k => q[j][1] # q[k][1]}}

\* The calls of Unmarshal: on an iterator that ends closed or with a cause,
\* with a slice that is empty or not.
UnmarshalCalls ==
  {[fn |-> "Unmarshal",
    arg |-> [results |-> rs, cause |-> c, ents |-> old, E |-> E],
    done |-> FALSE, ret |-> None] :
     rs \in Deliveries, c \in {NoErr, ContextError},
     old \in {<<>>, <<OldEntity, OldEntity>>}, E \in EntityTypes}

FuncInit ==
  /\ PipelineOff
  /\ MuxOff
  /\ HdrOff
  /\ ParOff
  /\ \/ call \in CheckErrCalls
     \/ call \in DeriveCalls
     \/ call \in DumpCalls
     \/ call \in NextPageCalls
     \/ call \in UnmarshalCalls

\* checkErr returns.
CallCheckErr ==
  /\ call.fn = "checkErr"
  /\ ~call.done
  /\ call' = [call EXCEPT !.done = TRUE, !.ret = CheckErrResult(call.arg)]
  /\ UNCHANGED <<pvars, mvars, hvars, svars>>

\* WithBase returns: the derived client, and the receiver as it is then.
CallWithBase ==
  /\ call.fn = "WithBase"
  /\ ~call.done
  /\ call' = [call EXCEPT !.done = TRUE,
                          !.ret = [derived |-> WithBase(call.arg.c, call.arg.new),
                                   orig |-> call.arg.c]]
  /\ UNCHANGED <<pvars, mvars, hvars, svars>>

\* WithAuthorizer returns.
CallWithAuthorizer ==
  /\ call.fn = "WithAuthorizer"
  /\ ~call.done
  /\ call' = [call EXCEPT !.done = TRUE,
                          !.ret = [derived |-> WithAuthorizer(call.arg.c, call.arg.new),
                                   orig |-> call.arg.c]]
  /\ UNCHANGED <<pvars, mvars, hvars, svars>>

\* dumpReq (dumpRsp) has written the headers.
CallDumpReq ==
  /\ call.fn = "dumpReq"
  /\ ~call.done
  /\ call' = [call EXCEPT !.done = TRUE, !.ret = dumpReq(call.arg)]
  /\ UNCHANGED <<pvars, mvars, hvars, svars>>

\* RoundTrip, debug on, has written the headers of the request (response).
CallRoundTripDump ==
  /\ call.fn = "RoundTrip"
  /\ ~call.done
  /\ call' = [call EXCEPT !.done = TRUE, !.ret = RoundTripDump(call.arg)]
  /\ UNCHANGED <<pvars, mvars, hvars, svars>>

\* NextPage returns.
CallNextPage ==
  /\ call.fn = "NextPage"
  /\ ~call.done
  /\ call' = [call EXCEPT
       !.done = TRUE,
       !.ret = NextPage([nil |-> call.arg.nil,
                         link |-> HeaderTokens(call.arg.links, 1)])]
  /\ UNCHANGED <<pvars, mvars, hvars, svars>>

\* Unmarshal returns.
CallUnmarshal ==
  /\ call.fn = "Unmarshal"
  /\ ~call.done
  /\ call' = [call EXCEPT !.done = TRUE, !.ret = Unmarshal(call.arg)]
  /\ UNCHANGED <<pvars, mvars, hvars, svars>>

FuncNext ==
  \/ CallUnmarshal
  \/ CallNextPage
  \/ CallCheckErr
  \/ CallWithBase
  \/ CallWithAuthorizer
  \/ CallDumpReq
  \/ CallRoundTripDump

FuncSpec == FuncInit /\ [][FuncNext]_vars

\* ================================================ calls sharing one Client
\* RoundTrip keeps its state in locals (cxt, i, tsp, rlerr, rsp): each call
\* has its own.  The Client, cfg, is the receiver all the calls read.  The
\* waits are those of the one call with the clock left out: a timer fires
\* at some time.

\* variant: the attempt counter kept on the Client, one for all its calls
Advance_OnClient(st, p) == [q \in DOMAIN st |-> [st[q] EXCEPT !.i = @ + 1]]

\* i++ of the retries loop of the call p
Advance(st, p) == [st EXCEPT ![p].i = @ + 1]

\* Calls of RoundTrip on one Client of any configuration.
SharedInit ==
  /\ MuxOff
  /\ HdrOff
  /\ CallOff
  /\ cfg \in [base : {FALSE}, debug : {FALSE}, auth : {"ok", "fail"}, limiter : BOOLEAN,
              retry : RetrySets, backoff : {0}]
  /\ pc = "off"
  /\ i = 0
  /\ now = 0
  /\ deadline = 0
  /\ ctxDone = FALSE
  /\ observed = FALSE
  /\ calls = 0
  /\ nexts = 0
  /\ updates = 0
  /\ req = [resolved |-> 0, auths |-> 0, merged |-> 0]
  /\ lastSent = req
  /\ tsp = None
  /\ bodies = <<>>
  /\ rlerr = NoSignal
  /\ allRetry = TRUE
  /\ sawSignal = FALSE
  /\ result = Unset
  /\ par = [p \in Callers |-> NewCall]

\* The call p up to the rate-limit gate.
CallBegin(p) ==
  /\ par[p].pc = "init"
  /\ IF cfg.auth = "fail"
       THEN par' = [par EXCEPT ![p].pc = "done", ![p].res = "Authorize"]
       ELSE IF cfg.limiter
         THEN \E nx \in NextResults :
                IF nx.err
                  THEN par' = [par EXCEPT ![p].pc = "done", ![p].res = "Next"]
                  ELSE IF nx.delay > 0
                    THEN par' = [par EXCEPT ![p].pc = "gate"]
                    ELSE par' = [par EXCEPT ![p].pc = "send"]
         ELSE par' = [par EXCEPT ![p].pc = "send"]
  /\ UNCHANGED <<pvars, mvars, hvars, fvars>>

\* The caller of p cancels the context of its request.
CallCancel(p) ==
  /\ par[p].pc \in {"init", "gate", "send", "rlwait", "bowait"}
  /\ ~par[p].ctx
  /\ par' = [par EXCEPT ![p].ctx = TRUE]
  /\ UNCHANGED <<pvars, mvars, hvars, fvars>>

\* case <-time.After(delay) of the gate's select of p
CallGateTimer(p) ==
  /\ par[p].pc = "gate"
  /\ par' = [par EXCEPT ![p].pc = "send"]
  /\ UNCHANGED <<pvars, mvars, hvars, fvars>>

\* case <-cxt.Done() of a select of p
CallCancelled(p) ==
  /\ par[p].pc \in {"gate", "rlwait", "bowait"}
  /\ par[p].ctx
  /\ par' = [par EXCEPT ![p].pc = "done", ![p].res = "Canceled"]
  /\ UNCHANGED <<pvars, mvars, hvars, fvars>>

\* case <-time.After(delay) of a retry's select of p: continue retries
CallRetryTimer(p) ==
  /\ par[p].pc \in {"rlwait", "bowait"}
  /\ par' = [Advance(par, p) EXCEPT ![p].pc = "send", ![p].own = @ + 1]
  /\ UNCHANGED <<pvars, mvars, hvars, fvars>>

\* One pass of the retries loop of p.
CallAttempt(p) ==
  /\ par[p].pc = "send"
  /\ \E out \in Outcomes :
     \E rl \in (IF out.err THEN {NoSignal} ELSE LimiterResults(now)) :
       LET d == Decide(par[p].i, out, rl, now) IN
         par' = [par EXCEPT ![p].pc = d.to, ![p].res = d.res.err]
  /\ UNCHANGED <<pvars, mvars, hvars, fvars>>

SharedNext ==
  \/ \E p \in Callers : CallBegin(p)
  \/ \E p \in Callers : CallCancel(p)
  \/ \E p \in Callers : CallGateTimer(p)
  \/ \E p \in Callers : CallCancelled(p)
  \/ \E p \in Callers : CallRetryTimer(p)
  \/ \E p \in Callers : CallAttempt(p)

SharedSpec == SharedInit /\ [][SharedNext]_vars

\* ==================================================== the pipeline's claims

C2_SharedCeiling ==
  /\ i <= maxRetries
  /\ calls <= maxRetries + 1
  /\ calls = (IF pc \in {"init", "gate", "send"} THEN i ELSE i + 1)
       \/ (pc = "done" /\ calls = 0)

C2_Witness ==
  /\ pc = "done"
  /\ calls = maxRetries + 1
  /\ sawSignal
  /\ tsp = 500
  /\ result.err = "Status"

\* C5: when every attempt answers a retryable non-2xx status, no
\* RetrySignal occurs and the context is not cancelled, the call makes
\* exactly 4 transport calls and returns the *Error of the 4th response.
C5_RetryableExhausts ==
  (pc = "done" /\ calls >= 1 /\ allRetry /\ ~sawSignal /\ ~ctxDone) =>
    /\ calls = maxRetries + 1
    /\ i = maxRetries
    /\ result = [rsp |-> None, err |-> "Status", status |-> tsp]

C5_Witness ==
  /\ pc = "done"
  /\ calls = maxRetries + 1
  /\ allRetry
  /\ ~sawSignal
  /\ ~ctxDone
  /\ result.err = "Status"
  /\ result.status = 503

\* C6: a RetrySignal below the ceiling wins over the status: whatever the
\* status, the call waits for the signalled time (the timer's deadline is
\* the RetrySignal's time, not a backoff), nothing is returned for that
\* response, and the wait ends only by re-sending the same request once
\* the time is reached, or by cancellation.
C6_RetrySignalPriority ==
  [][ /\ (calls' = calls + 1 /\ rlerr'.kind = "retry" /\ i < maxRetries) =>
           (pc' = "rlwait" /\ deadline' = rlerr'.after /\ result' = Unset
              /\ i' = i)
      /\ (pc = "rlwait" /\ pc' = "send") =>
           (now >= rlerr.after /\ i' = i + 1 /\ req' = req /\ calls' = calls)
      /\ (pc = "rlwait" /\ pc' \notin {"rlwait", "send"}) =>
           (ctxDone /\ result'.err = "Canceled")
      /\ (calls >= 1 /\ calls' = calls + 1) => lastSent' = lastSent ]_vars

C6_Witness ==
  /\ pc = "send"
  /\ i >= 1
  /\ rlerr.kind = "retry"
  /\ rlerr.after > 0
  /\ now >= rlerr.after
  /\ tsp \in {200, 500}
  /\ ~cfg.retry.nil
  /\ 500 \in cfg.retry.set

\* C7: a RetrySignal on the attempt made after the 3 retries ends the call
\* with the limiter's error and no response, 2xx or not, after 4 calls.
C7_RetrySignalAtCeiling ==
  (pc = "done" /\ rlerr.kind = "retry" /\ i >= maxRetries) =>
    /\ result = [rsp |-> None, err |-> "RetrySignal", status |-> None]
    /\ calls = maxRetries + 1

C7_Witness ==
  /\ pc = "done"
  /\ result.err = "RetrySignal"
  /\ tsp = 200

\* C8: a transport error on any attempt ends the call at once with that
\* error: no wait, no further call and no limiter Update for the attempt.
C8_TransportErrorReturned ==
  [][ /\ (calls' = calls + 1 /\ tsp' = None) =>
           /\ pc' = "done"
           /\ result' = [rsp |-> None, err |-> "Transport", status |-> None]
           /\ updates' = updates
           /\ deadline' = deadline
      /\ pc = "done" => calls' = calls ]_vars

C8_Witness ==
  /\ pc = "done"
  /\ result.err = "Transport"
  /\ calls >= 2
  /\ cfg.limiter
  /\ updates = calls - 1

\* C9: once a wait of the call has observed the cancellation, the call has
\* returned the cancellation error, and no transport call follows.
C9_CancelledNeverRetried ==
  [][ observed' =>
        /\ pc' = "done"
        /\ result' = [rsp |-> None, err |-> "Canceled", status |-> None]
        /\ calls' = calls ]_vars

C9_Witness ==
  /\ observed
  /\ pc = "done"
  /\ i >= 1
  /\ tsp = 500
  /\ result.err = "Canceled"

\* C10 (as stated): with the context cancelled at a suspension point the
\* request is never sent, whatever the wait and the timer.
C10_CancellationAlwaysWins ==
  [][ (ctxDone /\ (pc \in Waits \/ (pc = "init" /\ cfg.limiter))) =>
        pc' # "send" ]_vars

\* C10 (amended): in a wait the call has entered, while the timer has not
\* fired, a cancelled context ends the call with the cancellation error and
\* without a transport call.
C10_CancellationWinsBeforeTimer ==
  [][ (ctxDone /\ pc \in Waits /\ now < deadline) =>
        \/ pc' = pc
        \/ (pc' = "done" /\ result'.err = "Canceled" /\ calls' = calls) ]_vars

C10_Witness ==
  /\ pc = "done"
  /\ observed
  /\ now < deadline
  /\ result.err = "Canceled"

\* ================================================= the multiplexer's claims
AllOk(urls) == \A k \in 1..Len(urls) : urls[k] = "ok"

\* C3: when the producer's N requests all succeed (and the caller does not
\* cancel), Collect returns exactly N responses, the one at position k
\* being the response to request k, whatever order the blocks ended in.
\* Stated for a Do that returned an iterator: dsp.Run did not fail.
C3_CollectInOrder ==
  (collected.done /\ ppc # "failed" /\ AllOk(mux.urls) /\ failed = {} /\ ~mctx) =>
    /\ collected.err = NoErr
    /\ Len(collected.rsps) = Len(mux.urls)
    /\ \A k \in 1..Len(mux.urls) :
         collected.rsps[k] = [status |-> 200, to |-> k - 1]

C3_Witness ==
  /\ collected.done
  /\ collected.err = NoErr
  /\ mux.concur >= 2
  /\ Len(mux.urls) >= 3
  /\ Len(collected.rsps) = Len(mux.urls)
  /\ buf[1].Index > buf[2].Index

\* C4: with no ErrorHandler, once a block's Client.Do has failed the
\* consumer ends with an error that wraps the *api.Error of a failed block
\* (its status kept), never with the closed sentinel; and when no request
\* succeeds, the first Next returns that error: no Result came before it.
C4_FailFast ==
  (collected.done /\ AllOk(mux.urls) /\ ~mux.errh /\ failed # {} /\ ~mctx) =>
    /\ ~iter.open
    /\ collected.err = iter.cause
    /\ collected.rsps = <<>>
    /\ collected.err.kind = "Status"
    /\ collected.err.status \in {404, 500}
    /\ [collected.err EXCEPT !.via = ""] \in failed
    /\ succeeded = {} => buf = <<>>

C4_Witness ==
  /\ collected.done
  /\ AllOk(mux.urls)
  /\ ~mctx
  /\ Len(mux.urls) >= 3
  /\ ~mux.errh
  /\ succeeded = {}
  /\ Cardinality(failed) >= 2
  /\ collected.err.status = 404
  /\ buf = <<>>

\* The indices of the Results the consumer has been handed.
Delivered == {buf[k].Index : k \in 1..Len(buf)}

\* C11: the consumer is told that the iterator is closed only when the
\* production goroutine has ended and no block is queued or running; by
\* then every block whose request succeeded has had its Result handed to
\* the consumer, and, the context not cancelled, the producer is exhausted.
C11_ClosedAfterAllDone ==
  (collected.done /\ collected.err = NoErr) =>
    /\ ppc = "exit"
    /\ queue = <<>>
    /\ running = {}
    /\ chan = <<>>
    /\ succeeded \subseteq Delivered
    /\ ~mctx => pidx = Len(mux.urls)

C11_Witness ==
  /\ collected.done
  /\ collected.err = NoErr
  /\ ~mctx
  /\ mux.concur = 1
  /\ Len(mux.urls) >= 3
  /\ succeeded = {0, 1, 2}
  /\ Len(collected.rsps) = 3

\* The Results written into the iterator so far: handed over, or waiting.
Written == buf \o chan

\* The responses Client.Do returns without an error for a request.
Executed(r) == {o.rsp : o \in {x \in DoOutcomes(r) : x.err = NoErr}}

\* C12 as stated: every Result carries the response that executing the
\* request of its index gave, and there is one Result per index at most.
C12_OnlyExecutedResponses ==
  /\ \A k \in 1..Len(Written) :
       Written[k].Response \in Executed(Request(mux.urls, Written[k].Index).req)
  /\ \A k, j \in 1..Len(Written) :
       Written[k].Index = Written[j].Index => k = j

\* C12, amended: every Result carries, under the index of its block, the
\* response Client.Do gave for the request of that index or, that Do having
\* failed, the response the ErrorHandler returned for that block with no
\* error; and there is one Result per index at most.
C12_ResultPairsIndexWithItsResponse ==
  /\ \A k \in 1..Len(Written) :
       LET x == Written[k] IN
         \/ /\ x.Index \in succeeded
            /\ x.Response \in Executed(Request(mux.urls, x.Index).req)
         \/ /\ x.Index \notin succeeded
            /\ [i |-> x.Index, rsp |-> x.Response, err |-> NoErr] \in handled
  /\ \A k, j \in 1..Len(Written) :
       Written[k].Index = Written[j].Index => k = j

C12_Witness ==
  /\ mux.concur = 2
  /\ Len(buf) = 3
  /\ buf[1].Index = 1
  /\ buf[2].Index = 0
  /\ buf[2].Response.status = 203
  /\ buf[3].Response = [status |-> 200, to |-> 2]

\* The indices of the blocks in flight that hold a response to write.
Writing == {u.i : u \in {x \in running : x.phase = "write"}}

\* The indices of the Results written so far.
WrittenIndices == {Written[k].Index : k \in 1..Len(Written)}

\* C13: the handler is asked only when one is set and only for a block whose
\* Client.Do failed, once per block, and what it returns is the block's
\* outcome: a response and no error gives the Result of that index with that
\* response; neither gives no Result for the index; in both cases the
\* dispatcher is not failed by the block, so that with a well-formed
\* producer and an uncancelled context Collect ends without an error once
\* every answer of the handler was free of errors.  An error returned fails
\* the block: the dispatcher is failed, no Result of the index is written
\* and the consumer ends with a handler's error, wrapped.
\* Stated for a Do that returned an iterator: dsp.Run did not fail.
C13_HandlerDecidesOutcome ==
  /\ handled # {} => mux.errh
  /\ \A h \in handled :
       /\ h.i \notin succeeded
       /\ \A g \in handled : g.i = h.i => g = h
       /\ (h.err = NoErr /\ h.rsp # NilResponse) =>
            \/ h.i \in Writing
            \/ \E k \in 1..Len(Written) : Written[k] = [Index |-> h.i, Response |-> h.rsp]
            \/ ~iter.open /\ iter.cause # NoErr
       /\ (h.err = NoErr /\ h.rsp = NilResponse) =>
            h.i \notin Writing \cup WrittenIndices
       /\ h.err # NoErr =>
            /\ dspErr # NoErr
            /\ h.i \notin Writing \cup WrittenIndices
            /\ collected.done => collected.err # NoErr
  /\ (mux.errh /\ ppc # "failed" /\ AllOk(mux.urls) /\ ~mctx) =>
       IF \A h \in handled : h.err = NoErr
         THEN /\ dspErr = NoErr
              /\ iter.cause = NoErr
              /\ collected.done =>
                   /\ collected.err = NoErr
                   /\ Delivered = succeeded
                        \cup {h.i : h \in {g \in handled : g.rsp # NilResponse}}
                   /\ Len(collected.rsps) = Cardinality(Delivered)
         ELSE collected.done =>
                /\ collected.rsps = <<>>
                /\ \E h \in handled :
                     h.err # NoErr /\ collected.err = [h.err EXCEPT !.via = "multiplex"]

C13_Witness ==
  /\ collected.done
  /\ collected.err = NoErr
  /\ ~mctx
  /\ Len(mux.urls) = 3
  /\ succeeded = {2}
  /\ [i |-> 0, rsp |-> [status |-> 203, to |-> 0], err |-> NoErr] \in handled
  /\ [i |-> 1, rsp |-> NilResponse, err |-> NoErr] \in handled
  /\ Delivered = {0, 2}

\* The blocks that are inside Client.Do.
Executing == {u \in running : u.phase = "do"}

\* C14: at every moment the number of blocks inside Client.Do is at most
\* the n the Mux was created with, and at most one when n is below one.
C14_ConcurrencyCeiling ==
  Cardinality(Executing) <= (IF mux.n >= 1 THEN mux.n ELSE 1)

C14_Witness ==
  /\ mux.n = 2
  /\ Cardinality(Executing) = 2
  /\ queue # <<>>

\* C15: a producer exhausted at index 0, the context not cancelled: nothing
\* is queued, run or written, neither the dispatcher nor the iterator gets
\* an error, and Collect, whose first Next finds the iterator closed, returns
\* the empty sequence of responses and no error.
\* Stated for a Do that returned an iterator: dsp.Run did not fail.
C15_EmptyProducer ==
  (mux.urls = <<>> /\ ppc # "failed" /\ ~mctx) =>
    /\ pidx = 0
    /\ queue = <<>>
    /\ running = {}
    /\ succeeded = {} /\ failed = {} /\ handled = {}
    /\ Written = <<>>
    /\ dspErr = NoErr
    /\ iter.cause = NoErr
    /\ collected.done =>
         /\ ppc = "exit"
         /\ collected.rsps = <<>>
         /\ collected.err = NoErr

C15_Witness ==
  /\ mux.urls = <<>>
  /\ ~mctx
  /\ ppc = "exit"
  /\ ~iter.open
  /\ collected.done
  /\ collected.rsps = <<>>
  /\ collected.err = NoErr

\* The indices of the blocks handed to the dispatcher and not yet ended.
Pending == {queue[k].i : k \in 1..Len(queue)} \cup {u.i : u \in running}

\* C16: when the producer returns an error for index k the iterator is
\* cancelled with that error, which stays its cause through the deferred
\* Cancel and is what Collect returns, with no responses; no block of an
\* index k or above was handed to the dispatcher, run or written.
C16_ProducerErrorCancels ==
  LET r == Request(mux.urls, pidx) IN
  /\ (ppc \in {"defer", "exit"} /\ r.err # NoErr /\ ~mctx) =>
       ~iter.open /\ iter.cause = r.err
  /\ iter.cause.kind = "Producer" =>
       /\ ppc \in {"defer", "exit"}
       /\ ~iter.open
       /\ iter.cause = [kind |-> "Producer", status |-> None, of |-> pidx, via |-> ""]
       /\ mux.urls[pidx + 1] = "bad"
       /\ \A k \in Pending \cup WrittenIndices \cup succeeded
                    \cup {e.of : e \in failed} \cup {h.i : h \in handled} : k < pidx
       /\ collected.done => collected.err = iter.cause /\ collected.rsps = <<>>

C16_Witness ==
  /\ mux.urls = <<"ok", "ok", "bad">>
  /\ ppc = "exit"
  /\ dspErr # NoErr
  /\ iter.cause = ProducerError(2)
  /\ succeeded # {}
  /\ collected.done
  /\ collected.err = ProducerError(2)

\* C17: when an attempt ends in a status-driven retry, the wait that
\* starts is the configured delay (three minutes when none above zero is
\* configured) times i + 1, i being the retry counter at that attempt; the
\* counter is shared, so i + 1 is the number of transport calls made so
\* far whatever kind of retry preceded: 1x, 2x, 3x for the first, second
\* and third attempt.
C17_BackoffGrowsWithAttempt ==
  [][(pc = "send" /\ pc' = "bowait") =>
       /\ i' = i
       /\ calls' = i + 1
       /\ now' = now
       /\ deadline' - now =
            (IF cfg.backoff > 0 THEN cfg.backoff ELSE 3) * (i + 1)]_vars

C17_Witness ==
  /\ pc = "bowait"
  /\ cfg.backoff = 2
  /\ sawSignal
  /\ i = 2
  /\ calls = 3
  /\ deadline - now = 6

\* C18: with a limiter set, the number of Update calls equals the number of
\* responses the transport has returned (every transport call but one that
\* ended in a transport error), whatever their status and whichever
\* attempt they answer, at every point after the attempt: in a retry wait,
\* and when the call has returned.  Without a limiter Update is not called.
C18_EveryResponseUpdatesLimiter ==
  /\ ~cfg.limiter => updates = 0
  /\ cfg.limiter =>
       updates = calls - (IF result.err = "Transport" THEN 1 ELSE 0)

C18_Witness ==
  /\ cfg.limiter
  /\ pc = "done"
  /\ result.err = "Status"
  /\ result.status = 503
  /\ sawSignal
  /\ calls = 4
  /\ updates = 4

\* C19: when the Authorizer fails, RoundTrip returns the authorization
\* error at once: the limiter is asked for no window and given no response,
\* the transport is not called and the default headers are not merged.
C19_AuthorizeFailureStopsCall ==
  /\ (cfg.auth = "fail" /\ pc # "init") =>
       /\ pc = "done"
       /\ result = [rsp |-> None, err |-> "Authorize", status |-> None]
  /\ result.err = "Authorize" =>
       /\ cfg.auth = "fail"
       /\ nexts = 0
       /\ updates = 0
       /\ calls = 0
       /\ req.merged = 0

C19_Witness ==
  /\ cfg.auth = "fail"
  /\ cfg.limiter
  /\ pc = "done"
  /\ result.err = "Authorize"
  /\ nexts = 0

\* C20 as stated: in the request sent, each key of the client's defaults
\* holds the client's value for it exactly when the request did not hold
\* the canonical key before the merge, and every header the request held
\* before the merge is as it was.
C20_DefaultsFillUnsetHeaders ==
  hdr.pc = "sent" =>
    /\ \A k \in Keys :
         hdr.client[k] # NoHeader =>
           (hdr.req[CanonicalHeaderKey(k)] = hdr.client[k]
              <=> hdr.before[CanonicalHeaderKey(k)] = NoHeader)
    /\ \A k \in Keys :
         hdr.before[k] # NoHeader => hdr.req[k] = hdr.before[k]

\* C21: checkErr gives no error for a 2xx status; for any other status it
\* gives an *Error whose Status is that status and whose cause is the
\* sentinel of 400, 401, 403, 404, 422 or 500, and no cause otherwise.
C21_SentinelPerStatus ==
  (call.fn = "checkErr" /\ call.done) =>
    LET s == call.arg
        e == call.ret
    IN IF s \in 200..299
         THEN e.nil
         ELSE /\ ~e.nil
              /\ e.Status = s
              /\ e.Cause = (IF s = 400 THEN "ErrBadRequest"
                             ELSE IF s = 401 THEN "ErrUnauthorized"
                             ELSE IF s = 403 THEN "ErrForbidden"
                             ELSE IF s = 404 THEN "ErrNotFound"
                             ELSE IF s = 422 THEN "ErrUnprocessableEntity"
                             ELSE IF s = 500 THEN "ErrInternalServerError"
                             ELSE "nil")

C21_Witness ==
  /\ call.fn = "checkErr"
  /\ call.done
  /\ call.arg = 422
  /\ call.ret = [nil |-> FALSE, Status |-> 422, Cause |-> "ErrUnprocessableEntity"]

\* C22 as stated: an attempt that receives a 2xx response ends the call,
\* which returns that response and no error.
C22_SuccessAlwaysReturned ==
  [][(pc = "send" /\ tsp' \in 200..299) =>
       /\ pc' = "done"
       /\ result' = [rsp |-> tsp', err |-> "none", status |-> None]]_vars

\* C22, amended: an attempt that receives a 2xx response for which the
\* limiter's Update reports no error (or with no limiter) ends the call,
\* which returns that response and no error, or, on a client with debug
\* and verbose on, the error of reading the body for the dump; it is not
\* retried, be the status in the retryable set or not.  With an error from
\* Update the
\* response is never returned: a RetrySignal makes the call retry or
\* fail, another error makes it fail.
C22_SuccessReturnedUnlessLimiterErr ==
  [][(pc = "send" /\ tsp' \in 200..299) =>
       IF rlerr'.kind = "nil"
         THEN /\ pc' = "done"
              /\ \/ result' = [rsp |-> tsp', err |-> "none", status |-> None]
                 \/ /\ cfg.debug
                    /\ result' = [rsp |-> None, err |-> "ReadBody", status |-> None]
              /\ i' = i
         ELSE /\ cfg.limiter
              /\ result'.rsp = None
              /\ pc' = "done" => result'.err \in {"RetrySignal", "RateLimit"}]_vars

C22_Witness ==
  /\ pc = "done"
  /\ cfg.limiter
  /\ 204 \in cfg.retry.set
  /\ tsp = 204
  /\ rlerr.kind = "nil"
  /\ calls = 4
  /\ result = [rsp |-> 204, err |-> "none", status |-> None]

\* C23 as stated: the client WithBase or WithAuthorizer returns equals the
\* receiver in every field but the one replaced, and the receiver is left
\* as it was.
C23_DerivedCopiesEveryField ==
  (call.fn \in {"WithBase", "WithAuthorizer"} /\ call.done) =>
    /\ call.ret.orig = call.arg.c
    /\ call.ret.derived =
         (IF call.fn = "WithBase"
            THEN [call.arg.c EXCEPT !.base = call.arg.new]
            ELSE [call.arg.c EXCEPT !.auth = call.arg.new])

\* C24: on a Mux created with a ceiling of one (or less), at most one
\* block is with the workers at any time, a block is started only when
\* every block of a lower index has ended, and the Results reach the
\* channel, hence the consumer, in strictly increasing order of Index.
C24_SequentialWhenCeilingIsOne ==
  mux.n <= 1 =>
    /\ Cardinality(running) <= 1
    /\ \A k \in 1..(Len(Written) - 1) : Written[k].Index < Written[k + 1].Index
    /\ \A u \in running :
         /\ \A k \in 1..Len(Written) : Written[k].Index < u.i
         /\ \A k \in succeeded \cup {e.of : e \in failed} : k <= u.i
    /\ \A k \in 1..Len(queue) : \A u \in running : u.i < queue[k].i

C24_Witness ==
  /\ mux.n = 1
  /\ ~mctx
  /\ Len(buf) = 3
  /\ buf[1].Index = 0
  /\ buf[2].Index = 1
  /\ buf[3].Index = 2
  /\ collected.done

\* C25: the first transport call of a RoundTrip call is made no earlier
\* than the time the limiter's Next permitted: when Next asked for a time
\* after now, the call is at or after that time.
C25_GateHoldsFirstSend ==
  [][(calls = 0 /\ calls' = 1) => (pc = "send" /\ now >= deadline)]_vars

C25_Witness ==
  /\ cfg.limiter
  /\ calls = 1
  /\ pc = "done"
  /\ result.err = "none"
  /\ ~ctxDone
  /\ deadline = 2
  /\ now = 2

\* C26 as stated: in every dump of headers the client writes, a value of
\* the Authorization header is written as the placeholder of its length
\* and digest only, its key is there, and every other value is written
\* as it is.
C26_SensitiveHeadersRedacted ==
  (call.fn \in {"dumpReq", "RoundTrip"} /\ call.done) =>
    /\ \A l \in call.ret :
         l.value.redacted <=> CanonicalHeaderKey(l.key) = "Authorization"
    /\ \A k \in DumpKeys :
         call.arg[k] # NoHeader =>
           \E l \in call.ret :
             /\ CanonicalHeaderKey(l.key) = CanonicalHeaderKey(k)
             /\ l.value.bytes = ByteLen(call.arg[k])
             /\ l.value.text = (IF CanonicalHeaderKey(k) = "Authorization"
                                  THEN Sha256(call.arg[k]) ELSE call.arg[k])

\* A link of the header that is not well-formed: its URL is not in angle
\* brackets, or a parameter of it has no "=".
Malformed(l) == l.url = "bare" \/ l.bad

\* C27 as stated: NextPage returns the URL of the link of rel "next"; the
\* empty string and no error for no response, no Link header, no link of
\* rel "next", or a next link whose results parameter is not "true"; and
\* an error when some link of the header is malformed.
C27_NextPage ==
  (call.fn = "NextPage" /\ call.done) =>
    LET ls == call.arg.links
        nextLinks == {k \in 1..Len(ls) : ls[k].rel = "next"}
    IN IF call.arg.nil \/ ls = <<>>
         THEN call.ret = [url |-> <<>>, err |-> "nil"]
       ELSE IF \E k \in 1..Len(ls) : Malformed(ls[k])
         THEN call.ret.err # "nil" /\ call.ret.url = <<>>
       ELSE IF nextLinks = {}
         THEN call.ret = [url |-> <<>>, err |-> "nil"]
       ELSE \E k \in nextLinks :
              call.ret = [url |-> (IF ls[k].results \in {"none", "true"}
                                     THEN URLText(ls[k], k) ELSE <<>>),
                          err |-> "nil"]

\* C28: an attempt whose Update returned an error that is no RetrySignal
\* never returns the response: when the call ends there, it ends with the
\* status error of a non-2xx response and with a rate-limit error, which
\* carries no status, of a 2xx response; when it is retried, then with
\* backoff and for a response whose status is in the retry set.
C28_LimiterErrorSurfaced ==
  [][(calls' = calls + 1 /\ rlerr'.kind = "other") =>
       /\ result'.err # "none"
       /\ pc' \in {"done", "bowait"}
       /\ pc' = "done" =>
            result' = (IF tsp' >= 200 /\ tsp' < 300
                         THEN [rsp |-> None, err |-> "RateLimit", status |-> None]
                         ELSE [rsp |-> None, err |-> "Status", status |-> tsp'])
       /\ pc' = "bowait" =>
            /\ ~cfg.retry.nil
            /\ tsp' \in cfg.retry.set
            /\ ~(tsp' >= 200 /\ tsp' < 300)
            /\ i < maxRetries]_vars

\* A call that ended with the rate-limit error of a 2xx response, after a
\* retry.
C28_Witness ==
  /\ pc = "done"
  /\ rlerr.kind = "other"
  /\ tsp = 200
  /\ result.err = "RateLimit"
  /\ calls >= 2

\* C29: once a call is at the transport call, and ever after, however many
\* retries of either tier it makes, the URL was resolved against the base
\* once (for a client with a base), Authorize was called once (for a client
\* with an Authorizer), the default headers were merged once and the
\* limiter's Next was asked once (for a client with a limiter); every
\* attempt sends the request as these steps left it.
C29_PreludeOnce ==
  (pc = "send" \/ calls >= 1) =>
    /\ req.resolved = (IF cfg.base THEN 1 ELSE 0)
    /\ req.auths = (IF cfg.auth = "ok" THEN 1 ELSE 0)
    /\ req.merged = 1
    /\ nexts = (IF cfg.limiter THEN 1 ELSE 0)
    /\ calls >= 1 => lastSent = req

\* A call of a client with a base, an Authorizer and a limiter, waiting to
\* retry for a status after two attempts, one of them retried for a
\* RetrySignal.
C29_Witness ==
  /\ cfg.base
  /\ cfg.auth = "ok"
  /\ cfg.limiter
  /\ calls >= 2
  /\ sawSignal
  /\ pc = "bowait"
  /\ req.resolved = 1
  /\ nexts = 1

\* C30: the attempts of one call follow one another: the transport is
\* called only from the one place of the loop, and attempt k+1 is made only
\* after the response of attempt k was received and handed to the limiter,
\* the retry counter was advanced for it, and its wait has run to its end
\* without the cancellation having been taken.
C30_AttemptsSequential ==
  [][(calls' = calls + 1) =>
       /\ pc = "send"
       /\ pc' # "send"
       /\ i = calls
       /\ calls >= 1 =>
            /\ tsp \in Statuses
            /\ updates = (IF cfg.limiter THEN calls ELSE 0)
            /\ now >= deadline
            /\ ~observed]_vars

\* A call that made three attempts, each response handed to the limiter,
\* and waited between them.
C30_Witness ==
  /\ calls = 3
  /\ i = 2
  /\ cfg.limiter
  /\ updates = 3
  /\ now >= 2
  /\ pc = "done"

\* ============================================== the shared Client's claims

\* C31: of the calls that run on one Client at the same time each has its
\* own attempt counter: it starts at 0, a step changes it only as the
\* retry of that very call and leaves every other call as it was, so that
\* it always counts the call's own retries and a call gives up on a
\* RetrySignal only after maxRetries retries of its own; a call that is
\* about to send can send whatever the other calls wait for; and no step
\* writes the Client.
C31_CallsShareNoState ==
  [][/\ cfg' = cfg
     /\ \A p \in Callers :
          /\ par[p].pc = "init" => par[p].i = 0
          /\ par[p].i = par[p].own
          /\ par[p].res = "RetrySignal" => par[p].own = maxRetries
          /\ par[p].pc = "send" => ENABLED CallAttempt(p)
          /\ par'[p].i # par[p].i =>
               /\ par[p].pc \in {"rlwait", "bowait"}
               /\ par'[p].pc = "send"
               /\ par'[p].i = par[p].i + 1
               /\ \A q \in Callers \ {p} : par'[q] = par[q]]_vars

\* One call waits for its third retry while another is still at its first
\* attempt.
C31_Witness ==
  \E p, q \in Callers :
    /\ par[p].pc \in {"rlwait", "bowait"}
    /\ par[p].i = 2
    /\ par[q].pc = "send"
    /\ par[q].i = 0

\* C32 as stated: when RoundTrip has returned, the body of every response
\* it received is closed, save that of the response it returned, which is
\* open.
C32_BodiesClosedOnReturn ==
  pc = "done" =>
    \A k \in 1..Len(bodies) :
      bodies[k] = (IF result.err = "none" /\ k = Len(bodies) THEN "open" ELSE "closed")

\* ================================================ the multiplexer, continued

\* C33: the requests obtained from the producer whose unit has not
\* completed are those being executed, those in the backlog and the one
\* being enqueued: at most N units are executed and at most N wait in the
\* backlog, N the ceiling max(1, n), so that they are never more than
\* 2N + 1, and all that the producer has handed out beyond them is done.
C33_Backpressure ==
  LET N == IF mux.n > 1 THEN mux.n ELSE 1
      enqueueing == IF ppc = "exec" THEN {pidx} ELSE {}
      pending == {u.i : u \in running} \cup {queue[k].i : k \in 1..Len(queue)}
                   \cup enqueueing
  IN ppc # "off" =>
       /\ Cardinality(running) <= N
       /\ Len(queue) <= N
       /\ Cardinality(pending) <= 2 * N + 1
       /\ Cardinality(pending) = Cardinality(running) + Len(queue) + Cardinality(enqueueing)
       /\ pending \subseteq 0..pidx

\* The loop is held in dsp.Exec with the worker busy and the backlog full.
C33_Witness ==
  /\ mux.concur = 1
  /\ Cardinality(running) = 1
  /\ Len(queue) = 1
  /\ ppc = "exec"
  /\ pidx = 2
  /\ dspErr = NoErr
  /\ ~mctx

\* C34: the producer is asked for the indices 0, 1, 2, ... in this order,
\* each once and none left out; it is asked by the one loop, for one index
\* beyond those enqueued at most; and the call that returned nil or an
\* error is the last.
C34_ProducerAskedInOrder ==
  /\ \A k \in 1..Len(asked) : asked[k] = k - 1
  /\ Len(asked) \in {pidx, pidx + 1}
  /\ ppc = "exec" => Len(asked) = pidx + 1
  /\ \A k \in 1..Len(asked) :
       Request(mux.urls, asked[k]).nil => k = Len(asked)

\* The producer was asked four times, the last answer being nil, and the
\* goroutine of the loop has ended.
C34_Witness ==
  /\ Len(asked) = 4
  /\ Request(mux.urls, 3) = [nil |-> TRUE, req |-> None, err |-> NoErr]
  /\ ppc = "exit"

\* C35: once the dispatcher has failed no block is taken into its backlog
\* any more, so that no request the loop tries to enqueue from then on is
\* executed; the loop asks the producer for one request more at most and
\* leaves at the dsp.Exec for it, without carrying on; and when the goroutine
\* has ended the iterator is cancelled with the dispatcher's error, unless
\* the producer's own error had cancelled it before.
C35_FailureStopsProduction ==
  [][/\ Len(queue') > Len(queue) => dspErr = NoErr
     /\ (dspErr # NoErr /\ ppc = "exec" /\ ppc' # "exec") =>
          /\ ppc' = "defer"
          /\ pidx' = pidx
          /\ queue' = queue
          /\ asked' = asked
     /\ (dspErr # NoErr /\ asked' # asked) => (ppc = "loop" /\ ppc' \in {"exec", "defer"})
     /\ (dspErr # NoErr /\ ppc = "exit") =>
          /\ ~iter.open
          /\ iter.cause.kind # "Producer" => iter.cause = dspErr]_vars

\* A unit failed while the loop was at dsp.Exec: the loop has left with
\* requests of the producer not asked for, and the iterator is cancelled
\* with the dispatcher's error.
C35_Witness ==
  /\ dspErr.kind = "Status"
  /\ ppc = "exit"
  /\ ~mctx
  /\ Len(asked) = 2
  /\ pidx = 1
  /\ Len(mux.urls) = 3
  /\ iter.cause = dspErr

\* C36: a unit that is executing does so with the context of the caller:
\* as long as the caller has not cancelled it, the unit ends with a
\* response or with the error of its own request, never with that of a
\* cancelled context, whether another unit has failed or not; and it is
\* taken from the workers by its own completion only.
C36_InFlightUnitsRunOn ==
  [][~mctx' =>
       /\ \A e \in failed' \ failed : e.kind = "Status"
       /\ \A u \in running \ running' :
            u.phase = "do" =>
              \/ u.i \in succeeded' /\ \E w \in running' : w.i = u.i /\ w.phase = "write"
              \/ \E e \in failed' : e.of = u.i /\ e.kind = "Status"]_vars

\* A unit is executing after another unit has failed the dispatcher, the
\* caller not having cancelled.
C36_Witness ==
  /\ dspErr.kind = "Status"
  /\ ~mctx
  /\ \E u \in running :
       /\ u.phase = "write"
       /\ u.i \in succeeded
       /\ u.i > dspErr.of

\* C38: Collect returns all or nothing.  Handed the error of Do it returns
\* that error and no responses, having pulled nothing; when a Next returned
\* an error that is not the closed sentinel it returns that error and no
\* responses, whatever it had drained; otherwise it returns the responses
\* of all the Results it drained, by ascending index.
C38_CollectAllOrNothing ==
  collected.done =>
    IF ppc = "failed"
      THEN /\ collected.err = dspErr
           /\ collected.err # NoErr
           /\ collected.rsps = <<>>
           /\ buf = <<>>
    ELSE IF collected.err # NoErr
      THEN /\ collected.err = iter.cause
           /\ collected.rsps = <<>>
    ELSE /\ iter.cause = NoErr
         /\ chan = <<>>
         /\ Len(collected.rsps) = Len(buf)
         /\ \A k \in 1..Len(buf) :
              collected.rsps[Cardinality({j \in 1..Len(buf) : buf[j].Index < buf[k].Index}) + 1]
                = buf[k].Response

\* Collect had drained two Results when a Next returned the error of a
\* failed unit, and returned that error and no responses.
C38_Witness ==
  /\ collected.done
  /\ collected.err.kind = "Status"
  /\ Len(buf) = 2
  /\ collected.rsps = <<>>

\* C39: a call of Do ends: the consumer that keeps pulling is in the end
\* handed the closed sentinel or an error, and by then the goroutine of the
\* loop has ended and no unit is left executing, writing or waiting in the
\* backlog, whether a unit failed, the producer failed or the caller
\* cancelled.
C39_DoTerminates ==
  <>(/\ collected.done
     /\ ppc \in {"exit", "failed"}
     /\ running = {}
     /\ queue = <<>>)

\* All has ended after the producer failed with units executing: the
\* iterator was cancelled under them.
C39_Witness ==
  /\ collected.done
  /\ ppc = "exit"
  /\ running = {}
  /\ queue = <<>>
  /\ iter.cause.kind = "Producer"
  /\ dspErr.kind = "Producer"

\* C40 as stated: Unmarshal returns one entity per collected response, the
\* entity at position k decoded from the response to request k.
C40_EntityOfRequest ==
  (call.fn = "Unmarshal" /\ call.done /\ call.ret.err = NoErr) =>
    /\ Len(call.ret.ents) = Len(call.arg.results)
    /\ \A k \in 1..Len(call.ret.ents) :
         \E j \in 1..Len(call.arg.results) :
           /\ call.arg.results[j].Index = k - 1
           /\ call.ret.ents[k] = apiUnmarshal(call.arg.results[j].Response, call.arg.E).e

\* C40, amended: Unmarshal returns one entity per collected response and
\* nothing of what the slice held; the entity at position k is decoded
\* from the response of the k-th smallest index collected, which is
\* request k when no smaller index is missing.  When the iterator ends
\* with a cause or a response is not decoded, it returns the error, the
\* cause wrapped, and no entity.
C40_EntitiesInIndexOrder ==
  (call.fn = "Unmarshal" /\ call.done) =>
    LET rs == call.arg.results
        failing == {j \in 1..Len(rs) : apiUnmarshal(rs[j].Response, call.arg.E).err # NoErr}
        rank(j) == 1 + Cardinality({q \in 1..Len(rs) : rs[q].Index < rs[j].Index})
    IN IF call.arg.cause # NoErr
         THEN /\ call.ret.ents = <<>>
              /\ call.ret.err = [call.arg.cause EXCEPT !.via = "collect"]
       ELSE IF failing # {}
         THEN /\ call.ret.ents = <<>>
              /\ \E j \in failing :
                   /\ call.ret.err = apiUnmarshal(rs[j].Response, call.arg.E).err
                   /\ \A q \in failing : rs[j].Index <= rs[q].Index
       ELSE /\ call.ret.err = NoErr
            /\ Len(call.ret.ents) = Len(rs)
            /\ \A j \in 1..Len(rs) :
                 call.ret.ents[rank(j)] = apiUnmarshal(rs[j].Response, call.arg.E).e

\* Three responses delivered out of order into a slice that held entities,
\* all decoded.
C40_Witness ==
  /\ call.fn = "Unmarshal"
  /\ call.done
  /\ call.ret.err = NoErr
  /\ call.arg.ents # <<>>
  /\ Len(call.arg.results) = 3
  /\ call.arg.results[1].Index = 2
  /\ call.arg.results[2].Index = 0
  /\ Len(call.ret.ents) = 3
  /\ call.ret.ents[1].of = 0
  /\ call.ret.ents[3].of = 2

====
